---- MODULE Spec2Model ----
\* A model of apscheduler's synchronous data stores (MongoDBDataStore and
\* SQLAlchemyDataStore): the schedule and job tables, the lease protocol
\* (acquire_* / release_*) and the events the store publishes.
EXTENDS Integers, Sequences, FiniteSets, TLC

\* ------------------------------------------------------------------ bounds

\* The clock runs over 0..MaxTime.
MaxTime == 2
\* The store's lock_expiration_delay constructor argument, in clock ticks.
lock_expiration_delay == 1
\* Schedule ids are 1..NumSchedules, job ids 1..NumJobs.
NumSchedules == 2
NumJobs == 2
\* The limit argument of acquire_schedules / acquire_jobs is in 1..MaxLimit.
MaxLimit == 2

\* ------------------------------------------------------------------ values

\* Python's None for a timestamp column / attribute.
NoTime == 0 - 1
\* Python's None (SQL NULL, absent MongoDB field) for acquired_by.
NoOwner == "None"

SchedulerIds == {"s1", "s2"}
WorkerIds == {"w1", "w2"}
ScheduleIds == 1..NumSchedules
JobIds == 1..NumJobs
Times == 0..MaxTime
Limits == 1..MaxLimit
Backends == {"mongodb", "sqlalchemy"}

VARIABLES
    now,                        \* datetime.now(timezone.utc)
    backend,                    \* which DataStore class is in use
    supports_update_returning,  \* SQLAlchemyDataStore._supports_update_returning
    t_schedules,                \* schedules table / collection: id -> row
    t_jobs,                     \* jobs table / collection: key -> row
    job_count,                  \* number of jobs ever added (job ids are unique)
    sched_call,                 \* per scheduler id: position in acquire/release
    job_call,                   \* per worker id: position in acquire/release
    published,                  \* events published to the store's hub by the last step
    lastOp,                     \* the store call the last step belongs to
    scheduler,                  \* the Scheduler object and the position of its run()
    worker,                     \* the Worker object and the position of its run()
    runs,                       \* the _run_job calls submitted to the Worker's executor
    hub                         \* an EventHub: subscriptions, executor queue, deliveries

vars == <<now, backend, supports_update_returning, t_schedules, t_jobs, job_count,
          sched_call, job_call, published, lastOp, scheduler, worker, runs, hub>>

\* The Scheduler, Worker, executor and EventHub of a process that uses none.
components == <<scheduler, worker, runs, hub>>

\* ------------------------------------------------------------------ helpers

Min(a, b) == IF a <= b THEN a ELSE b

Range(s) == {s[i] : i \in DOMAIN s}

\* All orderings of a finite set.
Perms(S) ==
    {p \in [1..Cardinality(S) -> S] : \A i, j \in 1..Cardinality(S) : p[i] = p[j] => i = j}

\* The orderings of S that are non-decreasing in key (ties in any order).
SortedBy(S, key(_)) ==
    {p \in Perms(S) : \A i \in 1..(Cardinality(S) - 1) : key(p[i]) <= key(p[i + 1])}

FirstN(s, n) == SubSeq(s, 1, Min(n, Len(s)))

Count(s, Test(_)) == Len(SelectSeq(s, Test))

\* The table without the rows whose key is in gone.
Without(table, gone) == [k \in DOMAIN table \ gone |-> table[k]]

NoOp == [op |-> "none"]

\* A Scheduler that was not entered: _state is RunState.stopped.
NoScheduler == [state |-> "stopped"]

\* A Worker that was not entered: _state is RunState.stopped.
NoWorker == [state |-> "stopped"]

\* ------------------------------------------------------------------ EventHub

\* Subscriptions made and events published in one run of the model.
MaxTokens == 2
MaxEvents == 2

\* The callbacks that are subscribed and the types of the events published.
Callbacks == {"a", "b"}
EventTypes == {"JobAdded", "ScheduleAdded"}

\* The event_types argument of subscribe: None, written <<>>, or an iterable
\* of types, written <<S>>.
TypeArguments == {<<>>} \cup {<<S>> : S \in SUBSET EventTypes}

\* max_workers of the executor of the hub, ThreadPoolExecutor(1).
HubThreads == 1

\* An EventHub before __enter__: no executor, no subscription.
NewHub ==
    [state |-> "new", subscriptions |-> <<>>, tokens |-> 0, events |-> 0,
     queue |-> <<>>, running |-> {}, invoked |-> <<>>, logged |-> <<>>, alive |-> TRUE]

\* _BaseEventHub.subscribe: types = set(event_types) if event_types else None.
SubscribedTypes(event_types) ==
    IF event_types = <<>> \/ event_types[1] = {} THEN <<>> ELSE event_types

\* EventHub.publish, the test of a subscription against the type of the event.
Matches(subscription, event_type) ==
    \/ subscription.event_types = <<>>
    \/ event_type \in subscription.event_types[1]

\* An executor that hands the work item submitted last to its thread first.
SubmitFirst(queue, items) ==
    [i \in 1..Len(items) |-> items[Len(items) + 1 - i]] \o queue

\* ThreadPoolExecutor.submit, once per item: the work queue is first in, first
\* out.
Submit(queue, items) == queue \o items

\* A deliver_event that lets the exception of the callback end the thread of
\* the executor.
DeliverEventUncaught(h, item, raised) ==
    [h EXCEPT !.running = @ \ {item}, !.alive = ~raised]

\* deliver_event, after func(event): an exception of the callback is caught
\* and logged.
DeliverEvent(h, item, raised) ==
    [h EXCEPT !.running = @ \ {item},
              !.logged = IF raised THEN Append(@, item) ELSE @]

\* EventHub.__enter__: the executor is created.
HubEnter ==
    /\ hub.state = "new"
    /\ hub' = [hub EXCEPT !.state = "open"]
    /\ lastOp' = [op |-> "hub_enter"]
    /\ published' = <<>>
    /\ UNCHANGED <<scheduler, worker, runs, now, backend, supports_update_returning,
                   t_schedules, t_jobs, job_count, sched_call, job_call>>

\* EventHub.__exit__: the executor is shut down; work items already submitted
\* are still run.
HubExit ==
    /\ hub.state = "open"
    /\ hub' = [hub EXCEPT !.state = "closed"]
    /\ lastOp' = [op |-> "hub_exit"]
    /\ published' = <<>>
    /\ UNCHANGED <<scheduler, worker, runs, now, backend, supports_update_returning,
                   t_schedules, t_jobs, job_count, sched_call, job_call>>

\* EventHub.subscribe(callback, event_types): a new token, the subscription
\* stored last in the dict. argument keeps the event_types of the call.
HubSubscribe(callback, event_types) ==
    /\ hub.tokens < MaxTokens
    /\ LET token == hub.tokens + 1
       IN /\ hub' = [hub EXCEPT
                 !.tokens = token,
                 !.subscriptions = Append(@, [token |-> token, callback |-> callback,
                                              event_types |-> SubscribedTypes(event_types),
                                              argument |-> event_types])]
          /\ lastOp' = [op |-> "subscribe", token |-> token, callback |-> callback,
                        event_types |-> event_types]
    /\ published' = <<>>
    /\ UNCHANGED <<scheduler, worker, runs, now, backend, supports_update_returning,
                   t_schedules, t_jobs, job_count, sched_call, job_call>>

\* An unsubscribe that leaves the subscription in the dict.
PopLater(subscriptions, token) == subscriptions

\* self._subscriptions.pop(token, None): the dict without the token, the
\* others in their order; the dict itself when it does not hold the token.
Pop(subscriptions, token) ==
    SelectSeq(subscriptions, LAMBDA subscription : subscription.token # token)

\* EventHub.unsubscribe(token): self._subscriptions.pop(token, None).
HubUnsubscribe(token) ==
    /\ hub' = [hub EXCEPT !.subscriptions = Pop(@, token)]
    /\ lastOp' = [op |-> "unsubscribe", token |-> token]
    /\ published' = <<>>
    /\ UNCHANGED <<scheduler, worker, runs, now, backend, supports_update_returning,
                   t_schedules, t_jobs, job_count, sched_call, job_call>>

\* The work items publish submits for the event: one per matching
\* subscription of list(self._subscriptions.values()), in the order of the dict.
WorkItems(subscriptions, event) ==
    LET matching == SelectSeq(subscriptions,
                              LAMBDA subscription : Matches(subscription, event.type))
    IN [i \in 1..Len(matching) |->
          [token |-> matching[i].token, callback |-> matching[i].callback,
           event |-> event]]

\* EventHub.publish(event). Without an executor (before __enter__) or with
\* one that was shut down, the first submit raises.
HubPublish(event_type) ==
    /\ hub.events < MaxEvents
    /\ LET event == [id |-> hub.events + 1, type |-> event_type]
           items == WorkItems(hub.subscriptions, event)
       IN IF hub.state = "open" \/ items = <<>>
          THEN /\ hub' = [hub EXCEPT !.events = event.id,
                                     !.queue = Submit(@, items)]
               /\ lastOp' = [op |-> "publish", event |-> event, items |-> items,
                             raised |-> FALSE]
          ELSE /\ hub' = [hub EXCEPT !.events = event.id]
               /\ lastOp' = [op |-> "publish", event |-> event, items |-> <<>>,
                             raised |-> TRUE]
    /\ published' = <<>>
    /\ UNCHANGED <<scheduler, worker, runs, now, backend, supports_update_returning,
                   t_schedules, t_jobs, job_count, sched_call, job_call>>

\* A thread of the executor takes the next work item and calls func(event).
HubDeliverStart ==
    /\ hub.alive
    /\ hub.queue # <<>>
    /\ Cardinality(hub.running) < HubThreads
    /\ hub' = [hub EXCEPT !.queue = Tail(@),
                          !.running = @ \cup {Head(hub.queue)},
                          !.invoked = Append(@, Head(hub.queue))]
    /\ lastOp' = [op |-> "invoke", item |-> Head(hub.queue)]
    /\ published' = <<>>
    /\ UNCHANGED <<scheduler, worker, runs, now, backend, supports_update_returning,
                   t_schedules, t_jobs, job_count, sched_call, job_call>>

\* func(event) returns or raises, and deliver_event ends.
HubDeliverEnd(item, raised) ==
    /\ item \in hub.running
    /\ hub' = DeliverEvent(hub, item, raised)
    /\ lastOp' = [op |-> "deliver_event", item |-> item, raised |-> raised]
    /\ published' = <<>>
    /\ UNCHANGED <<scheduler, worker, runs, now, backend, supports_update_returning,
                   t_schedules, t_jobs, job_count, sched_call, job_call>>

\* ------------------------------------------------------------------ serializer

\* Serializer.serialize / deserialize (pickle): the stored bytes are not the
\* object, and deserialize undoes serialize.
serialize(obj) == <<"pickle", obj>>

deserialize(data) == data[2]

\* ------------------------------------------------------------------ events

ScheduleUpdated(schedule_id, next_fire_time) ==
    [type |-> "ScheduleUpdated", schedule_id |-> schedule_id,
     next_fire_time |-> next_fire_time]

ScheduleRemoved(schedule_id) ==
    [type |-> "ScheduleRemoved", schedule_id |-> schedule_id]

JobAdded(job_id) == [type |-> "JobAdded", job_id |-> job_id]

\* ------------------------------------------------------------------ rows

\* A schedule as the scheduler holds it in memory.
Schedule(id, next_fire_time) == [id |-> id, next_fire_time |-> next_fire_time]

\* A row as add_schedule inserts it: no lock fields.
NewScheduleRow(schedule) ==
    [serialized_data |-> serialize(schedule),
     next_fire_time |-> schedule.next_fire_time,
     acquired_by |-> NoOwner,
     acquired_until |-> NoTime]

\* A job as the worker holds it in memory.
Job(id) == [id |-> id]

\* A row as add_job inserts it.
NewJobRow(job, created_at) ==
    [serialized_data |-> serialize(job),
     created_at |-> created_at,
     acquired_by |-> NoOwner,
     acquired_until |-> NoTime]

\* UUID.hex: the SQL store keys its job rows by the hex string of the id.
hex(id) == id + 16

\* The key of a job's row: job.id.hex in the SQL store, job.id in MongoDB.
job_key(id) == IF backend = "sqlalchemy" THEN hex(id) ELSE id

\* _deserialize_schedules / the deserialize loop of the MongoDB store: the
\* schedules stored in the rows ids[1], ids[2], ... of table.
DeserializeRows(table, ids) ==
    [i \in DOMAIN ids |-> deserialize(table[ids[i]].serialized_data)]

\* ------------------------------------------------------ get_schedules

RECURSIVE AscendingIds(_)
\* ORDER BY id / sort('_id'): the ids of S in ascending order.
AscendingIds(S) ==
    IF S = {} THEN <<>>
    ELSE LET m == CHOOSE x \in S : \A y \in S : x <= y
         IN <<m>> \o AscendingIds(S \ {m})

\* get_schedules() with no ids: every stored schedule, ordered by id.
get_schedules == DeserializeRows(t_schedules, AscendingIds(DOMAIN t_schedules))

\* ------------------------------------------------------ acquire_schedules

\* The lock test both stores use: no lock, or a lock that ended before at.
LockFree(row, at) == row.acquired_until = NoTime \/ row.acquired_until < at

\* MongoDBDataStore.acquire_schedules, the find(): rows with a next_fire_time
\* and a free lock, sorted by next_fire_time, the first limit of them.
MongoFindSchedules(limit) ==
    LET match == {i \in DOMAIN t_schedules :
                    /\ t_schedules[i].next_fire_time # NoTime
                    /\ LockFree(t_schedules[i], now)}
    IN {FirstN(p, limit) :
          p \in SortedBy(match, LAMBDA i : t_schedules[i].next_fire_time)}

\* The update_many() of acquire_schedules / acquire_jobs and the UPDATE of the
\* SQL store: stamp the rows ids that (still) exist, whatever their lock.
Stamp(table, ids, owner, until) ==
    [k \in DOMAIN table |->
        IF k \in ids
        THEN [table[k] EXCEPT !.acquired_by = owner, !.acquired_until = until]
        ELSE table[k]]

\* The part of acquire_schedules the last step ran: its selecting query
\* (selected), its return to the caller (returned), or both.
AcquireSchedulesStep(s, limit, selected, returned) ==
    [op |-> "acquire_schedules", caller |-> s, limit |-> limit,
     selected |-> selected, returned |-> returned]

\* MongoDBDataStore.acquire_schedules up to the end of the cursor loop. With
\* no schedule found the call returns [] at once.
MongoAcquireSchedulesFind(s, limit) ==
    /\ backend = "mongodb"
    /\ sched_call[s].pc = "idle"
    /\ \E ids \in MongoFindSchedules(limit) :
         LET schedules == DeserializeRows(t_schedules, ids)
         IN IF schedules # <<>>
            THEN /\ sched_call' = [sched_call EXCEPT ![s] =
                        [pc |-> "found", schedules |-> schedules, limit |-> limit]]
                 /\ lastOp' = AcquireSchedulesStep(s, limit, TRUE, FALSE)
            ELSE /\ sched_call' = [sched_call EXCEPT ![s] =
                        [pc |-> "holding", schedules |-> <<>>]]
                 /\ lastOp' = AcquireSchedulesStep(s, limit, TRUE, TRUE)
    /\ published' = <<>>
    /\ UNCHANGED <<components, now, backend, supports_update_returning, t_schedules, t_jobs,
                   job_count, job_call>>

\* MongoDBDataStore.acquire_schedules from "if schedules:" on: a second
\* datetime.now(), update_many() on the ids found, return.
MongoAcquireSchedulesUpdate(s) ==
    /\ backend = "mongodb"
    /\ sched_call[s].pc = "found"
    /\ LET c == sched_call[s]
           acquired_until == now + lock_expiration_delay
           ids == {c.schedules[i].id : i \in DOMAIN c.schedules}
       IN /\ t_schedules' = Stamp(t_schedules, ids, s, acquired_until)
          /\ sched_call' = [sched_call EXCEPT ![s] =
                 [pc |-> "holding", schedules |-> c.schedules]]
          /\ lastOp' = AcquireSchedulesStep(s, c.limit, FALSE, TRUE)
    /\ published' = <<>>
    /\ UNCHANGED <<components, now, backend, supports_update_returning, t_jobs, job_count, job_call>>

\* SQLAlchemyDataStore.acquire_schedules, the WHERE of the CTE.
SqlDue(row, at) ==
    /\ row.next_fire_time # NoTime
    /\ row.next_fire_time <= at
    /\ LockFree(row, at)

\* SQLAlchemyDataStore.acquire_schedules, the CTE: the due rows with a free
\* lock, LIMIT limit and no ORDER BY, so any limit of them.
SqlSchedulesCte(limit) ==
    LET due == {i \in DOMAIN t_schedules : SqlDue(t_schedules[i], now)}
    IN {S \in SUBSET due : Cardinality(S) = Min(limit, Cardinality(due))}

\* The rows SQLAlchemyDataStore.acquire_schedules reads back: the UPDATE's
\* RETURNING rows, or else every row WHERE acquired_by = scheduler_id.
SqlAcquiredRows(updated, chosen, scheduler_id) ==
    IF supports_update_returning
    THEN chosen
    ELSE {i \in DOMAIN updated : updated[i].acquired_by = scheduler_id}

\* SQLAlchemyDataStore.acquire_schedules: one transaction; the rows come
\* back in no stated order.
SqlAcquireSchedules(s, limit) ==
    /\ backend = "sqlalchemy"
    /\ sched_call[s].pc = "idle"
    /\ \E chosen \in SqlSchedulesCte(limit) :
         LET acquired_until == now + lock_expiration_delay
             updated == Stamp(t_schedules, chosen, s, acquired_until)
         IN \E ids \in Perms(SqlAcquiredRows(updated, chosen, s)) :
              /\ t_schedules' = updated
              /\ sched_call' = [sched_call EXCEPT ![s] =
                     [pc |-> "holding", schedules |-> DeserializeRows(updated, ids)]]
    /\ lastOp' = AcquireSchedulesStep(s, limit, TRUE, TRUE)
    /\ published' = <<>>
    /\ UNCHANGED <<components, now, backend, supports_update_returning, t_jobs, job_count, job_call>>

\* ------------------------------------------------------ release_schedules

ListedIds(schedules) == {schedules[i].id : i \in DOMAIN schedules}

\* The schedule of the list with this id.
Listed(schedules, id) == CHOOSE sch \in Range(schedules) : sch.id = id

\* release_schedules: the schedules that get an update request (a
\* next_fire_time, and serialize() did not raise) ...
ToUpdate(schedules, unserializable) ==
    SelectSeq(schedules,
              LAMBDA sch : sch.next_fire_time # NoTime /\ sch.id \notin unserializable)

\* A release_schedules whose SerializationError branch forgets to append the
\* schedule to finished_schedule_ids.
FinishedWithoutUnserializable(schedules, unserializable) ==
    SelectSeq(schedules, LAMBDA sch : sch.next_fire_time = NoTime)

\* ... and finished_schedule_ids: the others.
Finished(schedules, unserializable) ==
    SelectSeq(schedules,
              LAMBDA sch : sch.next_fire_time = NoTime \/ sch.id \in unserializable)

\* The filter {'_id': schedule.id, 'acquired_by': scheduler_id} and the SQL
\* WHERE id = ... AND acquired_by = scheduler_id.
OwnedBy(table, id, owner) == id \in DOMAIN table /\ table[id].acquired_by = owner

\* The rows a statement over the ids of list matches.
OwnedIds(table, list, owner) == {id \in ListedIds(list) : OwnedBy(table, id, owner)}

\* MongoDBDataStore.release_schedules, the UpdateOne: $unset the lock fields,
\* $set next_fire_time and serialized_data.
MongoUpdateOne(row, schedule) ==
    [serialized_data |-> serialize(schedule),
     next_fire_time |-> schedule.next_fire_time,
     acquired_by |-> NoOwner,
     acquired_until |-> NoTime]

\* MongoDBDataStore.release_schedules, the bulk_write of the UpdateOne and
\* DeleteOne requests.
MongoReleaseTable(table, scheduler_id, schedules, unserializable) ==
    LET upd == OwnedIds(table, ToUpdate(schedules, unserializable), scheduler_id)
        del == OwnedIds(table, Finished(schedules, unserializable), scheduler_id)
    IN [k \in DOMAIN table \ del |->
          IF k \in upd THEN MongoUpdateOne(table[k], Listed(schedules, k)) ELSE table[k]]

\* MongoDBDataStore.release_schedules, the events: ScheduleUpdated for each
\* entry of updated_schedules, then ScheduleRemoved for each finished id.
MongoReleaseEvents(schedules, unserializable) ==
    LET upd == ToUpdate(schedules, unserializable)
        fin == Finished(schedules, unserializable)
    IN [i \in DOMAIN upd |-> ScheduleUpdated(upd[i].id, upd[i].next_fire_time)]
       \o [i \in DOMAIN fin |-> ScheduleRemoved(fin[i].id)]

\* SQLAlchemyDataStore.release_schedules, the UPDATE: serialized_data and
\* next_fire_time only.
SqlUpdateRow(row, schedule) ==
    [row EXCEPT !.serialized_data = serialize(schedule),
                !.next_fire_time = schedule.next_fire_time]

\* SQLAlchemyDataStore.release_schedules, the rows the UPDATE changes: it is
\* executed only inside "if self._supports_update_returning".
SqlUpdatedIds(table, scheduler_id, schedules, unserializable) ==
    IF supports_update_returning
    THEN OwnedIds(table, ToUpdate(schedules, unserializable), scheduler_id)
    ELSE {}

\* SQLAlchemyDataStore.release_schedules, the UPDATE and the DELETE.
SqlReleaseTable(table, scheduler_id, schedules, unserializable) ==
    LET upd == SqlUpdatedIds(table, scheduler_id, schedules, unserializable)
        del == OwnedIds(table, Finished(schedules, unserializable), scheduler_id)
    IN [k \in DOMAIN table \ del |->
          IF k \in upd THEN SqlUpdateRow(table[k], Listed(schedules, k)) ELSE table[k]]

\* SQLAlchemyDataStore.release_schedules, the events: ScheduleUpdated for the
\* ids the UPDATE returned, then ScheduleRemoved for each finished id.
SqlReleaseEvents(table, scheduler_id, schedules, unserializable) ==
    LET ids == SqlUpdatedIds(table, scheduler_id, schedules, unserializable)
        upd == SelectSeq(schedules, LAMBDA sch : sch.id \in ids)
        fin == Finished(schedules, unserializable)
    IN [i \in DOMAIN upd |-> ScheduleUpdated(upd[i].id, upd[i].next_fire_time)]
       \o [i \in DOMAIN fin |-> ScheduleRemoved(fin[i].id)]

\* The next_fire_time a scheduler leaves on a schedule it processed
\* (Scheduler.run): None, or a fire time after now.
NextFireTimes == {NoTime, now + 1}

\* The lists a scheduler hands back: the schedules it acquired, each with its
\* new next_fire_time; unserializable are the ids of those (with a
\* next_fire_time) for which serialize() raises SerializationError.
ReleaseArgs(held) ==
    UNION {{[schedules |-> [i \in DOMAIN held |-> Schedule(held[i].id, nft[i])],
             unserializable |-> u] :
               u \in SUBSET {held[i].id : i \in {j \in DOMAIN held : nft[j] # NoTime}}} :
           nft \in [DOMAIN held -> NextFireTimes]}

\* A release_schedules call; owned are the listed ids whose rows the caller
\* owned when it was made.
ReleaseSchedulesStep(s, schedules, unserializable) ==
    [op |-> "release_schedules", caller |-> s, schedules |-> schedules,
     unserializable |-> unserializable,
     owned |-> {id \in DOMAIN t_schedules :
                  /\ \E i \in DOMAIN schedules : schedules[i].id = id
                  /\ t_schedules[id].acquired_by = s}]

\* MongoDBDataStore.release_schedules(s, schedules).
MongoReleaseSchedules(s) ==
    /\ backend = "mongodb"
    /\ sched_call[s].pc = "holding"
    /\ \E a \in ReleaseArgs(sched_call[s].schedules) :
         /\ t_schedules' = MongoReleaseTable(t_schedules, s, a.schedules, a.unserializable)
         /\ published' = MongoReleaseEvents(a.schedules, a.unserializable)
         /\ lastOp' = ReleaseSchedulesStep(s, a.schedules, a.unserializable)
    /\ sched_call' = [sched_call EXCEPT ![s] = [pc |-> "idle"]]
    /\ UNCHANGED <<components, now, backend, supports_update_returning, t_jobs, job_count, job_call>>

\* SQLAlchemyDataStore.release_schedules(s, schedules).
SqlReleaseSchedules(s) ==
    /\ backend = "sqlalchemy"
    /\ sched_call[s].pc = "holding"
    /\ \E a \in ReleaseArgs(sched_call[s].schedules) :
         /\ t_schedules' = SqlReleaseTable(t_schedules, s, a.schedules, a.unserializable)
         /\ published' =
                SqlReleaseEvents(t_schedules, s, a.schedules, a.unserializable)
         /\ lastOp' = ReleaseSchedulesStep(s, a.schedules, a.unserializable)
    /\ sched_call' = [sched_call EXCEPT ![s] = [pc |-> "idle"]]
    /\ UNCHANGED <<components, now, backend, supports_update_returning, t_jobs, job_count, job_call>>

\* ------------------------------------------------------------------ clock

\* Time passes.
Tick ==
    /\ now < MaxTime
    /\ now' = now + 1
    /\ published' = <<>>
    /\ lastOp' = NoOp
    /\ UNCHANGED <<components, backend, supports_update_returning, t_schedules, t_jobs, job_count,
                   sched_call, job_call>>

\* ------------------------------------------------ the schedule store

\* The tables add_schedule can have built: any schedules, none of them locked.
FreshSchedules ==
    UNION {[S -> Times \cup {NoTime}] : S \in SUBSET ScheduleIds}

InitSchedules ==
    /\ now = 0
    /\ backend \in Backends
    /\ supports_update_returning \in
           (IF backend = "sqlalchemy" THEN BOOLEAN ELSE {FALSE})
    /\ \E nft \in FreshSchedules :
         t_schedules = [i \in DOMAIN nft |-> NewScheduleRow(Schedule(i, nft[i]))]
    /\ t_jobs = <<>>
    /\ job_count = 0
    /\ sched_call = [s \in SchedulerIds |-> [pc |-> "idle"]]
    /\ job_call = [w \in WorkerIds |-> [pc |-> "idle"]]
    /\ published = <<>>
    /\ lastOp = NoOp
    /\ scheduler = NoScheduler
    /\ worker = NoWorker
    /\ runs = <<>>
    /\ hub = NewHub

NextSchedules ==
    \/ \E s \in SchedulerIds, limit \in Limits : MongoAcquireSchedulesFind(s, limit)
    \/ \E s \in SchedulerIds : MongoAcquireSchedulesUpdate(s)
    \/ \E s \in SchedulerIds, limit \in Limits : SqlAcquireSchedules(s, limit)
    \/ \E s \in SchedulerIds : MongoReleaseSchedules(s)
    \/ \E s \in SchedulerIds : SqlReleaseSchedules(s)
    \/ Tick

SpecSchedules == InitSchedules /\ [][NextSchedules]_vars

\* ------------------------------------------------------------------ add_job

\* add_job(job), both stores: insert the row with created_at = now, publish
\* JobAdded. Job ids are fresh UUIDs: the next unused id.
AddJob ==
    /\ job_count < NumJobs
    /\ LET job == Job(job_count + 1)
       IN /\ t_jobs' = [k \in DOMAIN t_jobs \cup {job_key(job.id)} |->
                          IF k = job_key(job.id) THEN NewJobRow(job, now) ELSE t_jobs[k]]
          /\ published' = <<JobAdded(job.id)>>
          /\ lastOp' = [op |-> "add_job", job |-> job]
    /\ job_count' = job_count + 1
    /\ UNCHANGED <<components, now, backend, supports_update_returning, t_schedules, sched_call,
                   job_call>>

\* ------------------------------------------------------------------ acquire_jobs

\* The SELECT / find() of acquire_jobs, both stores: the rows with a free
\* lock, ordered by created_at, the first limit of them.
SelectJobs(limit) ==
    LET match == {k \in DOMAIN t_jobs : LockFree(t_jobs[k], now)}
    IN {FirstN(p, limit) : p \in SortedBy(match, LAMBDA k : t_jobs[k].created_at)}

\* The part of acquire_jobs the last step ran: its selecting query (selected),
\* its return to the caller (returned), or both; result is the list a
\* returning step returned, and none says that it returned None instead.
AcquireJobsStep(w, limit, selected, returned, result, none) ==
    [op |-> "acquire_jobs", caller |-> w, limit |-> limit,
     selected |-> selected, returned |-> returned, result |-> result, none |-> none]

\* MongoDBDataStore.acquire_jobs up to the end of the cursor loop. With no job
\* found the function falls off its end and returns None.
MongoAcquireJobsFind(w, limit) ==
    /\ backend = "mongodb"
    /\ job_call[w].pc = "idle"
    /\ \E keys \in SelectJobs(limit) :
         LET jobs == DeserializeRows(t_jobs, keys)
         IN IF jobs # <<>>
            THEN /\ job_call' = [job_call EXCEPT ![w] =
                        [pc |-> "found", jobs |-> jobs, limit |-> limit,
                         sel_now |-> now]]
                 /\ lastOp' = AcquireJobsStep(w, limit, TRUE, FALSE, <<>>, FALSE)
            ELSE /\ job_call' = [job_call EXCEPT ![w] = [pc |-> "idle"]]
                 /\ lastOp' = AcquireJobsStep(w, limit, TRUE, TRUE, <<>>, TRUE)
    /\ published' = <<>>
    /\ UNCHANGED <<components, now, backend, supports_update_returning, t_schedules, t_jobs,
                   job_count, sched_call>>

\* MongoDBDataStore.acquire_jobs from "if jobs:" on: a second datetime.now(),
\* update_many() on the ids found, return jobs.
MongoAcquireJobsUpdate(w) ==
    /\ backend = "mongodb"
    /\ job_call[w].pc = "found"
    /\ LET c == job_call[w]
           acquired_until == now + lock_expiration_delay
           keys == {job_key(c.jobs[i].id) : i \in DOMAIN c.jobs}
       IN /\ t_jobs' = Stamp(t_jobs, keys, w, acquired_until)
          /\ job_call' = [job_call EXCEPT ![w] = [pc |-> "holding", jobs |-> c.jobs]]
          /\ lastOp' = AcquireJobsStep(w, c.limit, FALSE, TRUE, c.jobs, FALSE)
    /\ published' = <<>>
    /\ UNCHANGED <<components, now, backend, supports_update_returning, t_schedules, job_count,
                   sched_call>>

\* SQLAlchemyDataStore.acquire_jobs up to the SELECT: now and acquired_until
\* are computed once, here. With no row selected the call returns [].
SqlAcquireJobsSelect(w, limit) ==
    /\ backend = "sqlalchemy"
    /\ job_call[w].pc = "idle"
    /\ \E keys \in SelectJobs(limit) :
         LET jobs == DeserializeRows(t_jobs, keys)
         IN IF jobs # <<>>
            THEN /\ job_call' = [job_call EXCEPT ![w] =
                        [pc |-> "found", jobs |-> jobs, limit |-> limit,
                         sel_now |-> now]]
                 /\ lastOp' = AcquireJobsStep(w, limit, TRUE, FALSE, <<>>, FALSE)
            ELSE /\ job_call' = [job_call EXCEPT ![w] = [pc |-> "idle"]]
                 /\ lastOp' = AcquireJobsStep(w, limit, TRUE, TRUE, <<>>, FALSE)
    /\ published' = <<>>
    /\ UNCHANGED <<components, now, backend, supports_update_returning, t_schedules, t_jobs,
                   job_count, sched_call>>

\* SQLAlchemyDataStore.acquire_jobs, the UPDATE ... WHERE id IN (the selected
\* ids) with the acquired_until computed before the SELECT, the commit and
\* the return of the deserialized jobs.
SqlAcquireJobsUpdate(w) ==
    /\ backend = "sqlalchemy"
    /\ job_call[w].pc = "found"
    /\ LET c == job_call[w]
           acquired_until == c.sel_now + lock_expiration_delay
           keys == {job_key(c.jobs[i].id) : i \in DOMAIN c.jobs}
       IN /\ t_jobs' = Stamp(t_jobs, keys, w, acquired_until)
          /\ job_call' = [job_call EXCEPT ![w] = [pc |-> "holding", jobs |-> c.jobs]]
          /\ lastOp' = AcquireJobsStep(w, c.limit, FALSE, TRUE, c.jobs, FALSE)
    /\ published' = <<>>
    /\ UNCHANGED <<components, now, backend, supports_update_returning, t_schedules, job_count,
                   sched_call>>

\* ------------------------------------------------------------------ release_jobs

\* A release_jobs whose DELETE leaves out the acquired_by = worker_id test.
ReleasedJobKeysOfAnyOwner(table, worker_id, jobs) ==
    {k \in {job_key(job.id) : job \in jobs} : k \in DOMAIN table}

\* release_jobs, both stores: the rows the DELETE matches, those of the
\* listed jobs WHERE acquired_by = worker_id.
ReleasedJobKeys(table, worker_id, jobs) ==
    {k \in {job_key(job.id) : job \in jobs} : OwnedBy(table, k, worker_id)}

\* release_jobs, both stores: the table after the DELETE.
ReleaseJobsTable(table, worker_id, jobs) ==
    Without(table, ReleasedJobKeys(table, worker_id, jobs))

\* release_jobs(w, jobs) for some of the jobs w acquired. The store publishes
\* no event.
ReleaseJobs(w) ==
    /\ job_call[w].pc = "holding"
    /\ \E jobs \in SUBSET Range(job_call[w].jobs) \ {{}} :
         LET left == SelectSeq(job_call[w].jobs, LAMBDA job : job \notin jobs)
         IN /\ t_jobs' = ReleaseJobsTable(t_jobs, w, jobs)
            /\ job_call' = [job_call EXCEPT ![w] =
                   IF left = <<>> THEN [pc |-> "idle"]
                   ELSE [pc |-> "holding", jobs |-> left]]
            /\ lastOp' = [op |-> "release_jobs", caller |-> w, jobs |-> jobs,
                           owned |-> {job \in jobs :
                                        /\ job_key(job.id) \in DOMAIN t_jobs
                                        /\ t_jobs[job_key(job.id)].acquired_by = w}]
    /\ published' = <<>>
    /\ UNCHANGED <<components, now, backend, supports_update_returning, t_schedules, job_count,
                   sched_call>>

\* ------------------------------------------------------ the job store

InitJobs ==
    /\ now = 0
    /\ backend \in Backends
    /\ supports_update_returning \in
           (IF backend = "sqlalchemy" THEN BOOLEAN ELSE {FALSE})
    /\ t_schedules = <<>>
    /\ t_jobs = <<>>
    /\ job_count = 0
    /\ sched_call = [s \in SchedulerIds |-> [pc |-> "idle"]]
    /\ job_call = [w \in WorkerIds |-> [pc |-> "idle"]]
    /\ published = <<>>
    /\ lastOp = NoOp
    /\ scheduler = NoScheduler
    /\ worker = NoWorker
    /\ runs = <<>>
    /\ hub = NewHub

NextJobs ==
    \/ AddJob
    \/ \E w \in WorkerIds, limit \in Limits : MongoAcquireJobsFind(w, limit)
    \/ \E w \in WorkerIds : MongoAcquireJobsUpdate(w)
    \/ \E w \in WorkerIds, limit \in Limits : SqlAcquireJobsSelect(w, limit)
    \/ \E w \in WorkerIds : SqlAcquireJobsUpdate(w)
    \/ \E w \in WorkerIds : ReleaseJobs(w)
    \/ Tick

SpecJobs == InitJobs /\ [][NextJobs]_vars

\* ------------------------------------------------------------------ add_schedule

ScheduleAdded(schedule_id, next_fire_time) ==
    [type |-> "ScheduleAdded", schedule_id |-> schedule_id,
     next_fire_time |-> next_fire_time]

\* ConflictPolicy.
ConflictPolicies == {"replace", "do_nothing", "exception"}

\* No exception: the call returned.
NoError == "None"

\* The schedules add_schedule is called with.
NewSchedules == {Schedule(id, nft) : id \in ScheduleIds, nft \in Times \cup {NoTime}}

\* insert_one / INSERT of a row whose id is not in the table.
Insert(table, id, row) ==
    [k \in DOMAIN table \cup {id} |-> IF k = id THEN row ELSE table[k]]

\* MongoDBDataStore.add_schedule, replace_one(filter, document, upsert): the
\* stored document becomes the new document, which has no lock fields.
MongoReplaceOne(row, schedule) == NewScheduleRow(schedule)

\* SQLAlchemyDataStore.add_schedule, the UPDATE of conflict_policy replace:
\* serialized_data and next_fire_time only.
SqlReplaceRow(row, schedule) ==
    [row EXCEPT !.serialized_data = serialize(schedule),
                !.next_fire_time = schedule.next_fire_time]

\* An add_schedule that does not look at conflict_policy and replaces.
AddScheduleAlwaysReplacing(table, schedule, conflict_policy, replaced) ==
    Insert(table, schedule.id, replaced)

\* add_schedule, both stores: the table after the call; replaced is the row
\* the store's replace statement leaves.
AddScheduleTable(table, schedule, conflict_policy, replaced) ==
    IF schedule.id \notin DOMAIN table
    THEN Insert(table, schedule.id, NewScheduleRow(schedule))
    ELSE IF conflict_policy = "replace"
         THEN [table EXCEPT ![schedule.id] = replaced]
         ELSE table

\* add_schedule, both stores: the events it publishes.
AddScheduleEvents(table, schedule, conflict_policy) ==
    IF schedule.id \notin DOMAIN table
    THEN <<ScheduleAdded(schedule.id, schedule.next_fire_time)>>
    ELSE IF conflict_policy = "replace"
         THEN <<ScheduleUpdated(schedule.id, schedule.next_fire_time)>>
         ELSE <<>>

\* add_schedule, both stores: the exception it raises, if any.
AddScheduleRaises(table, schedule, conflict_policy) ==
    IF schedule.id \in DOMAIN table /\ conflict_policy = "exception"
    THEN "ConflictingIdError"
    ELSE NoError

\* An add_schedule call; existed says that the id was stored when it was made.
AddScheduleStep(schedule, conflict_policy) ==
    [op |-> "add_schedule", schedule |-> schedule, conflict_policy |-> conflict_policy,
     existed |-> schedule.id \in DOMAIN t_schedules,
     raised |-> AddScheduleRaises(t_schedules, schedule, conflict_policy)]

\* MongoDBDataStore.add_schedule(schedule, conflict_policy).
MongoAddSchedule(schedule, conflict_policy) ==
    /\ backend = "mongodb"
    /\ LET replaced == IF schedule.id \in DOMAIN t_schedules
                       THEN MongoReplaceOne(t_schedules[schedule.id], schedule)
                       ELSE NewScheduleRow(schedule)
       IN t_schedules' = AddScheduleTable(t_schedules, schedule, conflict_policy, replaced)
    /\ published' = AddScheduleEvents(t_schedules, schedule, conflict_policy)
    /\ lastOp' = AddScheduleStep(schedule, conflict_policy)
    /\ UNCHANGED <<components, now, backend, supports_update_returning, t_jobs, job_count,
                   sched_call, job_call>>

\* SQLAlchemyDataStore.add_schedule(schedule, conflict_policy).
SqlAddSchedule(schedule, conflict_policy) ==
    /\ backend = "sqlalchemy"
    /\ LET replaced == IF schedule.id \in DOMAIN t_schedules
                       THEN SqlReplaceRow(t_schedules[schedule.id], schedule)
                       ELSE NewScheduleRow(schedule)
       IN t_schedules' = AddScheduleTable(t_schedules, schedule, conflict_policy, replaced)
    /\ published' = AddScheduleEvents(t_schedules, schedule, conflict_policy)
    /\ lastOp' = AddScheduleStep(schedule, conflict_policy)
    /\ UNCHANGED <<components, now, backend, supports_update_returning, t_jobs, job_count,
                   sched_call, job_call>>

\* ------------------------------------------------------------------ remove_schedules

\* MongoDBDataStore.remove_schedules: the ids the find() returns, which
\* delete_many() then deletes: the requested ids that are stored.
MongoRemovedIds(table, ids) == ids \cap DOMAIN table

\* SQLAlchemyDataStore.remove_schedules, the DELETE: the requested rows with
\* no lock or a lock that ended before at.
SqlRemovedIds(table, ids, at) == {id \in ids \cap DOMAIN table : LockFree(table[id], at)}

\* SQLAlchemyDataStore.remove_schedules: removed_ids is assigned only with
\* RETURNING; without it the loop over removed_ids raises, after the commit.
SqlRemoveRaises == IF supports_update_returning THEN NoError ELSE "UnboundLocalError"

\* A remove_schedules call; stored are the requested ids that were stored
\* when it was made, and unlocked those of them with no lock or an expired one.
RemoveSchedulesStep(ids, raised) ==
    [op |-> "remove_schedules", ids |-> ids, raised |-> raised,
     stored |-> ids \cap DOMAIN t_schedules,
     unlocked |-> {id \in ids \cap DOMAIN t_schedules :
                     \/ t_schedules[id].acquired_until = NoTime
                     \/ t_schedules[id].acquired_until < now}]

\* MongoDBDataStore.remove_schedules(ids).
MongoRemoveSchedules(ids) ==
    /\ backend = "mongodb"
    /\ LET removed == MongoRemovedIds(t_schedules, ids)
       IN /\ t_schedules' = Without(t_schedules, removed)
          /\ \E order \in Perms(removed) :
               published' = [i \in DOMAIN order |-> ScheduleRemoved(order[i])]
    /\ lastOp' = RemoveSchedulesStep(ids, NoError)
    /\ UNCHANGED <<components, now, backend, supports_update_returning, t_jobs, job_count,
                   sched_call, job_call>>

\* SQLAlchemyDataStore.remove_schedules(ids).
SqlRemoveSchedules(ids) ==
    /\ backend = "sqlalchemy"
    /\ LET removed == SqlRemovedIds(t_schedules, ids, now)
       IN /\ t_schedules' = Without(t_schedules, removed)
          /\ IF supports_update_returning
             THEN \E order \in Perms(removed) :
                    published' = [i \in DOMAIN order |-> ScheduleRemoved(order[i])]
             ELSE published' = <<>>
    /\ lastOp' = RemoveSchedulesStep(ids, SqlRemoveRaises)
    /\ UNCHANGED <<components, now, backend, supports_update_returning, t_jobs, job_count,
                   sched_call, job_call>>

\* ------------------------------------------------ adding and removing schedules

\* A store just constructed, with empty tables.
InitStore ==
    /\ now = 0
    /\ backend \in Backends
    /\ supports_update_returning \in
           (IF backend = "sqlalchemy" THEN BOOLEAN ELSE {FALSE})
    /\ t_schedules = <<>>
    /\ t_jobs = <<>>
    /\ job_count = 0
    /\ sched_call = [s \in SchedulerIds |-> [pc |-> "idle"]]
    /\ job_call = [w \in WorkerIds |-> [pc |-> "idle"]]
    /\ published = <<>>
    /\ lastOp = NoOp
    /\ scheduler = NoScheduler
    /\ worker = NoWorker
    /\ runs = <<>>
    /\ hub = NewHub

\* acquire_schedules(s, limit) by a scheduler that then keeps what it got:
\* the stamps the call leaves in the store.
AcquireAndHold(s, limit) ==
    /\ \E ids \in IF backend = "mongodb"
                  THEN {Range(found) : found \in MongoFindSchedules(limit)}
                  ELSE SqlSchedulesCte(limit) :
         /\ ids # {}
         /\ t_schedules' = Stamp(t_schedules, ids, s, now + lock_expiration_delay)
    /\ published' = <<>>
    /\ lastOp' = AcquireSchedulesStep(s, limit, TRUE, TRUE)
    /\ UNCHANGED <<components, now, backend, supports_update_returning, t_jobs, job_count,
                   sched_call, job_call>>

NextManage ==
    \/ \E schedule \in NewSchedules, policy \in ConflictPolicies :
         MongoAddSchedule(schedule, policy)
    \/ \E schedule \in NewSchedules, policy \in ConflictPolicies :
         SqlAddSchedule(schedule, policy)
    \/ \E ids \in SUBSET ScheduleIds : MongoRemoveSchedules(ids)
    \/ \E ids \in SUBSET ScheduleIds : SqlRemoveSchedules(ids)
    \/ \E s \in SchedulerIds, limit \in Limits : AcquireAndHold(s, limit)
    \/ Tick

SpecManage == InitStore /\ [][NextManage]_vars

\* ------------------------------------------------------------------ Worker

\* Worker(max_concurrent_jobs=...): the size of the job pool.
max_concurrent_jobs == 2
\* _run_job calls submitted in one run of the model.
MaxRuns == 3

\* The identity of the Worker.
WorkerIdentity == "w1"

\* A Job with the attributes the Worker reads.
JobOf(id, schedule_id, scheduled_fire_time, start_deadline) ==
    [id |-> id, schedule_id |-> schedule_id,
     scheduled_fire_time |-> scheduled_fire_time, start_deadline |-> start_deadline]

WorkerStarted == [type |-> "WorkerStarted"]

WorkerStopped(exception) == [type |-> "WorkerStopped", exception |-> exception]

JobStarted(job_id) == [type |-> "JobStarted", job_id |-> job_id]

JobDeadlineMissed(job_id) == [type |-> "JobDeadlineMissed", job_id |-> job_id]

JobCompleted(job_id) == [type |-> "JobCompleted", job_id |-> job_id]

JobFailed(job_id) == [type |-> "JobFailed", job_id |-> job_id]

\* Worker.__init__: state stopped, nothing running, no wake-up latch yet.
\* pc is the place of run(), entered tells how __enter__ ended ("no" until it
\* does), start_future whether the future __enter__ waits on has a result,
\* exited whether __exit__ was called, error what run() raised.
NewWorker ==
    [state |-> "stopped", pc |-> "new", running |-> {}, wakeup |-> FALSE,
     events |-> <<>>, entered |-> "no", start_future |-> FALSE, exited |-> FALSE,
     error |-> NoError]

\* A run() that ends on an exception without publishing a Stopped event.
RunRaisedUnannounced(component, exception, event) ==
    [component EXCEPT !.state = "stopped", !.pc = "done", !.error = exception]

\* run(), "except BaseException as exc": state stopped, the Stopped event
\* with the exception published, the exception raised again.
RunRaised(component, exception, event) ==
    [component EXCEPT !.state = "stopped", !.pc = "done", !.error = exception,
                      !.events = Append(@, event)]

\* __enter__ waits on start_future, whose set_result is subscribed to every
\* event of the component's hub; the hub relays the events of the data store.
\* The subscription lasts until __enter__ ends.
StartFutureAfter(component, events) ==
    component.start_future
        \/ (component.pc # "new" /\ component.entered = "no" /\ events # <<>>)

\* Worker.__enter__ up to the wait: state starting, a fresh latch, the
\* JobAdded subscription, run() submitted to the executor.
WorkerEnter ==
    /\ worker.pc = "new"
    /\ worker' = [worker EXCEPT !.state = "starting", !.pc = "run", !.wakeup = FALSE]
    /\ published' = <<>>
    /\ lastOp' = NoOp
    /\ UNCHANGED <<hub, scheduler, runs, now, backend, supports_update_returning, t_schedules,
                   t_jobs, job_count, sched_call, job_call>>

\* Worker.__enter__ from the wait on: it returns once start_future has a
\* result or run() has ended, and raises what run() raised if run() has ended.
WorkerEnterReturn ==
    /\ worker.pc # "new"
    /\ worker.entered = "no"
    /\ worker.start_future \/ worker.pc = "done"
    /\ worker' = [worker EXCEPT
           !.entered = IF worker.pc = "done" /\ worker.error # NoError
                       THEN "raised" ELSE "yes"]
    /\ published' = <<>>
    /\ lastOp' = NoOp
    /\ UNCHANGED <<hub, scheduler, runs, now, backend, supports_update_returning, t_schedules,
                   t_jobs, job_count, sched_call, job_call>>

\* Worker.__exit__ after a successful __enter__: state stopping, latch set.
WorkerExit ==
    /\ worker.entered = "yes"
    /\ ~worker.exited
    /\ worker' = [worker EXCEPT !.state = "stopping", !.wakeup = TRUE, !.exited = TRUE]
    /\ published' = <<>>
    /\ lastOp' = NoOp
    /\ UNCHANGED <<hub, scheduler, runs, now, backend, supports_update_returning, t_schedules,
                   t_jobs, job_count, sched_call, job_call>>

\* add_job(job) of either store, for a job with any start_deadline; the
\* Worker's JobAdded subscription sets its wake-up latch.
AddJobAndWake(start_deadline) ==
    /\ job_count < MaxRuns
    /\ LET job == JobOf(job_count + 1, NoTime, NoTime, start_deadline)
       IN /\ t_jobs' = Insert(t_jobs, job_key(job.id), NewJobRow(job, now))
          /\ published' = <<JobAdded(job.id)>>
          /\ lastOp' = [op |-> "add_job", job |-> job]
    /\ job_count' = job_count + 1
    /\ worker' = IF worker.pc = "new" THEN worker
                 ELSE [worker EXCEPT
                          !.wakeup = TRUE,
                          !.start_future = StartFutureAfter(worker, <<JobAdded(job_count + 1)>>)]
    /\ UNCHANGED <<hub, scheduler, runs, now, backend, supports_update_returning, t_schedules,
                   sched_call, job_call>>

\* Worker.run, its first statement: RuntimeError unless the state is starting.
WorkerRunCheck ==
    /\ worker.pc = "run"
    /\ worker' = IF worker.state = "starting"
                 THEN [worker EXCEPT !.pc = "checked"]
                 ELSE [worker EXCEPT !.pc = "done", !.error = "RuntimeError"]
    /\ published' = <<>>
    /\ lastOp' = NoOp
    /\ UNCHANGED <<hub, scheduler, runs, now, backend, supports_update_returning, t_schedules,
                   t_jobs, job_count, sched_call, job_call>>

\* Worker.run up to the loop: state started, WorkerStarted published.
WorkerRunStart ==
    /\ worker.pc = "checked"
    /\ worker' = [worker EXCEPT !.state = "started", !.pc = "loop",
                                !.events = Append(@, WorkerStarted),
                                !.start_future = TRUE]
    /\ published' = <<>>
    /\ lastOp' = NoOp
    /\ UNCHANGED <<hub, scheduler, runs, now, backend, supports_update_returning, t_schedules,
                   t_jobs, job_count, sched_call, job_call>>

\* What acquire_jobs hands to its caller when it selected no job: None from
\* MongoDBDataStore (the function ends without a return), [] from
\* SQLAlchemyDataStore.
ReturnsNone(jobs) == backend = "mongodb" /\ jobs = <<>>

\* The _run_job calls the loop submits for the jobs acquired.
Submitted(jobs) == [i \in DOMAIN jobs |-> [job |-> jobs[i], pc |-> "queued", events |-> <<>>]]

\* Worker.run, the test of the while loop when the state is no longer
\* started: state stopped, WorkerStopped() published.
WorkerLoopEnd ==
    /\ worker.pc = "loop"
    /\ worker.state # "started"
    /\ worker' = [worker EXCEPT !.state = "stopped", !.pc = "done",
                                !.events = Append(@, WorkerStopped(NoError))]
    /\ published' = <<>>
    /\ lastOp' = NoOp
    /\ UNCHANGED <<hub, scheduler, runs, now, backend, supports_update_returning, t_schedules,
                   t_jobs, job_count, sched_call, job_call>>

\* Worker.run, one pass of the loop body up to the wait: acquire_jobs for the
\* free slots, then every job acquired is added to _running_jobs and
\* submitted. Iterating over None raises TypeError, which ends run().
WorkerAcquire ==
    /\ worker.pc = "loop"
    /\ worker.state = "started"
    /\ LET available_slots == max_concurrent_jobs - Cardinality(worker.running)
       IN IF available_slots = 0
          THEN /\ worker' = [worker EXCEPT !.pc = "wait"]
               /\ lastOp' = NoOp
               /\ UNCHANGED <<t_jobs, runs>>
          ELSE \E keys \in SelectJobs(available_slots) :
                 LET jobs == DeserializeRows(t_jobs, keys)
                 IN /\ Len(runs) + Len(jobs) <= MaxRuns
                    /\ t_jobs' = Stamp(t_jobs, Range(keys), WorkerIdentity,
                                       now + lock_expiration_delay)
                    /\ lastOp' = AcquireJobsStep(WorkerIdentity, available_slots, TRUE,
                                                 TRUE, jobs, ReturnsNone(jobs))
                    /\ IF ReturnsNone(jobs)
                       THEN /\ worker' = RunRaised(worker, "TypeError",
                                                   WorkerStopped("TypeError"))
                            /\ runs' = runs
                       ELSE /\ worker' = [worker EXCEPT
                                   !.pc = "wait",
                                   !.running = @ \cup {jobs[i].id : i \in DOMAIN jobs}]
                            /\ runs' = runs \o Submitted(jobs)
    /\ published' = <<>>
    /\ UNCHANGED <<hub, scheduler, now, backend, supports_update_returning, t_schedules,
                   job_count, sched_call, job_call>>

\* Worker.run when acquire_jobs raises: the exception ends run().
WorkerAcquireRaises ==
    /\ worker.pc = "loop"
    /\ worker.state = "started"
    /\ max_concurrent_jobs - Cardinality(worker.running) > 0
    /\ worker' = RunRaised(worker, "StoreError", WorkerStopped("StoreError"))
    /\ published' = <<>>
    /\ lastOp' = [op |-> "raise", exception |-> "StoreError"]
    /\ UNCHANGED <<hub, scheduler, runs, now, backend, supports_update_returning, t_schedules,
                   t_jobs, job_count, sched_call, job_call>>

\* Worker.run, self._wakeup_event.wait(): returns once the latch is set.
WorkerWait ==
    /\ worker.pc = "wait"
    /\ worker.wakeup
    /\ worker' = [worker EXCEPT !.pc = "rearm"]
    /\ published' = <<>>
    /\ lastOp' = NoOp
    /\ UNCHANGED <<hub, scheduler, runs, now, backend, supports_update_returning, t_schedules,
                   t_jobs, job_count, sched_call, job_call>>

\* Worker.run, self._wakeup_event = threading.Event(): a fresh, clear latch.
WorkerRearm ==
    /\ worker.pc = "rearm"
    /\ worker' = [worker EXCEPT !.pc = "loop", !.wakeup = FALSE]
    /\ published' = <<>>
    /\ lastOp' = NoOp
    /\ UNCHANGED <<hub, scheduler, runs, now, backend, supports_update_returning, t_schedules,
                   t_jobs, job_count, sched_call, job_call>>

\* ------------------------------------------------------------------ _run_job

\* The pool has max_concurrent_jobs + 1 threads and run() holds one of them
\* until it ends.
PoolHasThread ==
    Cardinality({i \in DOMAIN runs : runs[i].pc \in {"called", "finally"}})
        < max_concurrent_jobs + (IF worker.pc = "done" THEN 1 ELSE 0)

\* _run_job, the deadline test: the job started too late.
DeadlineMissed(job, start_time) ==
    job.start_deadline # NoTime /\ start_time > job.start_deadline

\* A _run_job that publishes no JobStarted before it calls the function.
StartEventsWithoutJobStarted(job, start_time) ==
    IF DeadlineMissed(job, start_time) THEN <<JobDeadlineMissed(job.id)>> ELSE <<>>

\* _run_job up to the call of job.func: JobDeadlineMissed and return, or
\* JobStarted.
StartEvents(job, start_time) ==
    IF DeadlineMissed(job, start_time)
    THEN <<JobDeadlineMissed(job.id)>>
    ELSE <<JobStarted(job.id)>>

\* _run_job(job) from its start to the call of job.func.
RunJobStart(i) ==
    /\ runs[i].pc = "queued"
    /\ PoolHasThread
    /\ runs' = [runs EXCEPT
           ![i].events = @ \o StartEvents(runs[i].job, now),
           ![i].pc = IF DeadlineMissed(runs[i].job, now) THEN "finally" ELSE "called"]
    /\ published' = <<>>
    /\ lastOp' = NoOp
    /\ UNCHANGED <<hub, scheduler, worker, now, backend, supports_update_returning,
                   t_schedules, t_jobs, job_count, sched_call, job_call>>

\* _run_job: job.func returned (JobCompleted) or raised (JobFailed).
RunJobOutcome(i, raised) ==
    /\ runs[i].pc = "called"
    /\ runs' = [runs EXCEPT
           ![i].events = Append(@, IF raised THEN JobFailed(runs[i].job.id)
                                             ELSE JobCompleted(runs[i].job.id)),
           ![i].pc = "finally"]
    /\ published' = <<>>
    /\ lastOp' = NoOp
    /\ UNCHANGED <<hub, scheduler, worker, now, backend, supports_update_returning,
                   t_schedules, t_jobs, job_count, sched_call, job_call>>

\* _run_job, the finally block: _running_jobs.remove(job.id), which raises
\* KeyError when the id is not in the set, and then release_jobs.
RunJobFinally(i) ==
    /\ runs[i].pc = "finally"
    /\ LET job == runs[i].job
       IN IF job.id \in worker.running
          THEN /\ worker' = [worker EXCEPT !.running = @ \ {job.id}]
               /\ t_jobs' = ReleaseJobsTable(t_jobs, WorkerIdentity, {job})
               /\ runs' = [runs EXCEPT ![i].pc = "done"]
               /\ lastOp' = [op |-> "release_jobs", caller |-> WorkerIdentity,
                              jobs |-> {job},
                              owned |-> {j \in {job} :
                                  /\ job_key(j.id) \in DOMAIN t_jobs
                                  /\ t_jobs[job_key(j.id)].acquired_by = WorkerIdentity}]
          ELSE /\ runs' = [runs EXCEPT ![i].pc = "KeyError"]
               /\ lastOp' = NoOp
               /\ UNCHANGED <<worker, t_jobs>>
    /\ published' = <<>>
    /\ UNCHANGED <<hub, scheduler, now, backend, supports_update_returning, t_schedules,
                   job_count, sched_call, job_call>>

\* ------------------------------------------------ a Worker and its store

\* The start_deadline of the jobs added: None, or the time the model starts at.
Deadlines == {NoTime, 0}

InitWorker ==
    /\ now = 0
    /\ backend \in Backends
    /\ supports_update_returning \in
           (IF backend = "sqlalchemy" THEN BOOLEAN ELSE {FALSE})
    /\ t_schedules = <<>>
    /\ t_jobs = <<>>
    /\ job_count = 0
    /\ sched_call = [s \in SchedulerIds |-> [pc |-> "idle"]]
    /\ job_call = [w \in WorkerIds |-> [pc |-> "idle"]]
    /\ published = <<>>
    /\ lastOp = NoOp
    /\ scheduler = NoScheduler
    /\ worker = NewWorker
    /\ runs = <<>>
    /\ hub = NewHub

NextWorker ==
    \/ WorkerEnter
    \/ WorkerEnterReturn
    \/ WorkerExit
    \/ job_count < NumJobs /\ \E start_deadline \in Deadlines : AddJobAndWake(start_deadline)
    \/ WorkerRunCheck
    \/ WorkerRunStart
    \/ WorkerLoopEnd
    \/ WorkerAcquire
    \/ WorkerWait
    \/ WorkerRearm
    \/ \E i \in DOMAIN runs : RunJobStart(i)
    \/ \E i \in DOMAIN runs, raised \in BOOLEAN : RunJobOutcome(i, raised)
    \/ \E i \in DOMAIN runs : RunJobFinally(i)
    \/ Tick

SpecWorker == InitWorker /\ [][NextWorker]_vars

\* ------------------------------------------------ a Worker left to run

\* The Worker and the threads of its pool while the clock stands still: no
\* lease expires, and MaxRuns jobs without a start_deadline may be added.
NextWorkerLive ==
    \/ WorkerEnter
    \/ WorkerEnterReturn
    \/ WorkerExit
    \/ AddJobAndWake(NoTime)
    \/ WorkerRunCheck
    \/ WorkerRunStart
    \/ WorkerLoopEnd
    \/ WorkerAcquire
    \/ WorkerWait
    \/ WorkerRearm
    \/ \E i \in DOMAIN runs : RunJobStart(i)
    \/ \E i \in DOMAIN runs, raised \in BOOLEAN : RunJobOutcome(i, raised)
    \/ \E i \in DOMAIN runs : RunJobFinally(i)

\* Every thread that can take a step eventually takes one: the caller of
\* __enter__, run(), and each _run_job, whose job function terminates. The
\* callers of add_job and of __exit__ are under no obligation.
WorkerFairness ==
    /\ WF_vars(WorkerEnter)
    /\ WF_vars(WorkerEnterReturn)
    /\ WF_vars(WorkerRunCheck)
    /\ WF_vars(WorkerRunStart)
    /\ WF_vars(WorkerLoopEnd)
    /\ WF_vars(WorkerAcquire)
    /\ WF_vars(WorkerWait)
    /\ WF_vars(WorkerRearm)
    /\ \A i \in 1..MaxRuns :
         /\ WF_vars(i \in DOMAIN runs /\ RunJobStart(i))
         /\ WF_vars(i \in DOMAIN runs /\ \E raised \in BOOLEAN : RunJobOutcome(i, raised))
         /\ WF_vars(i \in DOMAIN runs /\ RunJobFinally(i))

SpecWorkerLive == InitWorker /\ [][NextWorkerLive]_vars /\ WorkerFairness

\* ------------------------------------------------------------------ triggers

\* Fire times a trigger produces, and jobs the Scheduler adds, in one run of
\* the model.
MaxFireTimes == 3
MaxAddedJobs == 4

\* What a trigger holds in place of a fire time when next() raises there.
Raises == 0 - 2

RECURSIVE Ascending(_)
\* The ascending sequence of a set of times.
Ascending(S) ==
    IF S = {} THEN <<>>
    ELSE LET m == CHOOSE x \in S : \A y \in S : x <= y
         IN <<m>> \o Ascending(S \ {m})

\* The triggers of the schedules: each produces a first fire time and then up
\* to MaxFireTimes - 1 later ones, and after them returns None for good or
\* raises.
Triggers ==
    UNION {{Ascending(S), Ascending(S) \o <<Raises>>} :
             S \in {T \in SUBSET Times : T # {} /\ Cardinality(T) <= MaxFireTimes}}

\* trigger.next(): the next fire time, None once the trigger is exhausted,
\* or an exception; the trigger moves on.
TriggerNext(trigger) ==
    IF trigger = <<>>
    THEN [raised |-> FALSE, value |-> NoTime, trigger |-> trigger]
    ELSE IF Head(trigger) = Raises
         THEN [raised |-> TRUE, value |-> NoTime, trigger |-> trigger]
         ELSE [raised |-> FALSE, value |-> Head(trigger), trigger |-> Tail(trigger)]

\* ------------------------------------------------------------------ Scheduler

CoalescePolicies == {"earliest", "latest", "all"}

\* The task ids: "t1" is registered with the Scheduler, "t2" is not.
TaskIds == {"t1", "t2"}

\* misfire_grace_time: None or a duration.
GraceTimes == {NoTime, lock_expiration_delay}

\* The identity of the Scheduler.
SchedulerIdentity == "s1"

\* The limit Scheduler.run passes to acquire_schedules.
AcquireLimit == 100

\* Scheduler.add_schedule: the Schedule it builds, with
\* next_fire_time = trigger.next().
ScheduleOf(id, task_id, trigger, coalesce, misfire_grace_time) ==
    [id |-> id, task_id |-> task_id, trigger |-> TriggerNext(trigger).trigger,
     coalesce |-> coalesce, misfire_grace_time |-> misfire_grace_time,
     next_fire_time |-> TriggerNext(trigger).value, last_fire_time |-> NoTime]

\* Schedule.next_deadline: the latest start of the run the schedule is being
\* fired for, misfire_grace_time after its fire time; None without a
\* misfire_grace_time.
next_deadline(schedule) ==
    IF schedule.misfire_grace_time # NoTime /\ schedule.last_fire_time # NoTime
    THEN schedule.last_fire_time + schedule.misfire_grace_time
    ELSE NoTime

SchedulerStarted == [type |-> "SchedulerStarted"]

SchedulerStopped(exception) == [type |-> "SchedulerStopped", exception |-> exception]

\* A Scheduler.run that puts a schedule with an unknown task on hold without
\* touching its next_fire_time.
OnLookupErrorKeepingFireTime(schedule) == schedule

\* Scheduler.run, except LookupError: schedule.next_fire_time = None.
OnLookupError(schedule) == [schedule EXCEPT !.next_fire_time = NoTime]

\* A Scheduler.run that stops at a fire time equal to now.
StopsAtOrAfter(fire_time, at) == fire_time = NoTime \/ fire_time >= at

\* Scheduler.run: "if fire_time is None or fire_time > now".
StopsAt(fire_time, at) == fire_time = NoTime \/ fire_time > at

\* A Scheduler.run whose latest policy keeps the first fire time.
CoalescedLatestAsEarliest(fire_times, fire_time, coalesce) ==
    IF coalesce = "all" THEN Append(fire_times, fire_time) ELSE fire_times

\* Scheduler.run: what a past-due fire time does to fire_times.
Coalesced(fire_times, fire_time, coalesce) ==
    IF coalesce = "all" THEN Append(fire_times, fire_time)
    ELSE IF coalesce = "latest" THEN [fire_times EXCEPT ![1] = fire_time]
    ELSE fire_times

RECURSIVE CalculateNext(_, _, _)
\* Scheduler.run, the "while True" loop over trigger.next(): the schedule and
\* the fire_times it ends with. An exception ends the loop with the
\* schedule's next_fire_time as it was.
CalculateNext(schedule, fire_times, at) ==
    LET n == TriggerNext(schedule.trigger)
        moved == [schedule EXCEPT !.trigger = n.trigger]
    IN IF n.raised
       THEN [schedule |-> moved, fire_times |-> fire_times]
       ELSE IF StopsAt(n.value, at)
            THEN [schedule |-> [moved EXCEPT !.next_fire_time = n.value],
                  fire_times |-> fire_times]
            ELSE CalculateNext(moved, Coalesced(fire_times, n.value, schedule.coalesce), at)

\* A Scheduler.run that creates the job without recording its fire time on
\* the schedule first.
FiredAtUnrecorded(schedule, fire_time) == schedule

\* Scheduler.run: schedule.last_fire_time = fire_time, just before the Job of
\* that fire time is created.
FiredAt(schedule, fire_time) == [schedule EXCEPT !.last_fire_time = fire_time]

RECURSIVE FireAll(_, _)
\* Scheduler.run, "for fire_time in fire_times": the schedule after the loop.
FireAll(schedule, fire_times) ==
    IF fire_times = <<>> THEN schedule
    ELSE FireAll(FiredAt(schedule, Head(fire_times)), Tail(fire_times))

\* Scheduler.run, the body of "for schedule in schedules": the schedule as it
\* is handed to release_schedules and the jobs added for it, without their ids.
ProcessSchedule(schedule, at, tasks) ==
    IF schedule.task_id \notin tasks
    THEN [schedule |-> OnLookupError(schedule), jobs |-> <<>>]
    ELSE LET r == CalculateNext(schedule, <<schedule.next_fire_time>>, at)
         IN [schedule |-> FireAll(r.schedule, r.fire_times),
             jobs |-> [i \in DOMAIN r.fire_times |->
                         [schedule_id |-> schedule.id,
                          scheduled_fire_time |-> r.fire_times[i],
                          start_deadline |->
                              next_deadline(FiredAt(r.schedule, r.fire_times[i]))]]]

RECURSIVE Concat(_)
\* The concatenation of a sequence of sequences.
Concat(ss) == IF ss = <<>> THEN <<>> ELSE Head(ss) \o Concat(Tail(ss))

\* The jobs one pass adds, in the order of add_job, with fresh ids.
AddedJobs(schedules, at, tasks, first_id) ==
    LET js == Concat([i \in DOMAIN schedules |-> ProcessSchedule(schedules[i], at, tasks).jobs])
    IN [i \in DOMAIN js |->
          JobOf(first_id + i - 1, js[i].schedule_id, js[i].scheduled_fire_time,
                js[i].start_deadline)]

RECURSIVE AddJobs(_, _, _)
\* add_job for each job of the list, in order.
AddJobs(table, jobs, created_at) ==
    IF jobs = <<>> THEN table
    ELSE AddJobs(Insert(table, job_key(Head(jobs).id), NewJobRow(Head(jobs), created_at)),
                 Tail(jobs), created_at)

\* Scheduler.__init__ in a process that has registered task "t1".
NewScheduler ==
    [state |-> "stopped", pc |-> "new", schedules |-> <<>>, wakeup |-> FALSE,
     tasks |-> {"t1"}, events |-> <<>>, error |-> NoError]

\* Scheduler.__enter__ (start_worker = False): state starting, a fresh latch,
\* the ScheduleAdded / ScheduleUpdated subscription, run() submitted.
SchedulerEnter ==
    /\ scheduler.pc = "new"
    /\ scheduler' = [scheduler EXCEPT !.state = "starting", !.pc = "run", !.wakeup = FALSE]
    /\ published' = <<>>
    /\ lastOp' = NoOp
    /\ UNCHANGED <<hub, worker, runs, now, backend, supports_update_returning, t_schedules,
                   t_jobs, job_count, sched_call, job_call>>

\* Scheduler.__exit__ after a successful __enter__: state stopping, latch set.
SchedulerExit ==
    /\ scheduler.pc \in {"loop", "process", "release", "wait", "rearm"}
    /\ scheduler.state = "started"
    /\ scheduler' = [scheduler EXCEPT !.state = "stopping", !.wakeup = TRUE]
    /\ published' = <<>>
    /\ lastOp' = NoOp
    /\ UNCHANGED <<hub, worker, runs, now, backend, supports_update_returning, t_schedules,
                   t_jobs, job_count, sched_call, job_call>>

\* Scheduler.run up to the loop: state started, SchedulerStarted published.
SchedulerRunStart ==
    /\ scheduler.pc = "run"
    /\ scheduler.state = "starting"
    /\ scheduler' = [scheduler EXCEPT !.state = "started", !.pc = "loop",
                                      !.events = Append(@, SchedulerStarted)]
    /\ published' = <<>>
    /\ lastOp' = NoOp
    /\ UNCHANGED <<hub, worker, runs, now, backend, supports_update_returning, t_schedules,
                   t_jobs, job_count, sched_call, job_call>>

\* Scheduler.run, the test of the while loop when the state is no longer
\* started: state stopped, SchedulerStopped() published.
SchedulerLoopEnd ==
    /\ scheduler.pc = "loop"
    /\ scheduler.state # "started"
    /\ scheduler' = [scheduler EXCEPT !.state = "stopped", !.pc = "done",
                                      !.events = Append(@, SchedulerStopped(NoError))]
    /\ published' = <<>>
    /\ lastOp' = NoOp
    /\ UNCHANGED <<hub, worker, runs, now, backend, supports_update_returning, t_schedules,
                   t_jobs, job_count, sched_call, job_call>>

\* Scheduler.run: schedules = acquire_schedules(identity, 100), on either store.
SchedulerAcquire ==
    /\ scheduler.pc = "loop"
    /\ scheduler.state = "started"
    /\ IF backend = "mongodb"
       THEN \E found \in MongoFindSchedules(AcquireLimit) :
              /\ t_schedules' = Stamp(t_schedules, Range(found), SchedulerIdentity,
                                      now + lock_expiration_delay)
              /\ scheduler' = [scheduler EXCEPT
                     !.pc = "process",
                     !.schedules = DeserializeRows(t_schedules, found)]
       ELSE \E chosen \in SqlSchedulesCte(AcquireLimit) :
              LET updated == Stamp(t_schedules, chosen, SchedulerIdentity,
                                   now + lock_expiration_delay)
              IN \E ids \in Perms(SqlAcquiredRows(updated, chosen, SchedulerIdentity)) :
                   /\ t_schedules' = updated
                   /\ scheduler' = [scheduler EXCEPT
                          !.pc = "process",
                          !.schedules = DeserializeRows(updated, ids)]
    /\ lastOp' = AcquireSchedulesStep(SchedulerIdentity, AcquireLimit, TRUE, TRUE)
    /\ published' = <<>>
    /\ UNCHANGED <<hub, worker, runs, now, backend, supports_update_returning, t_jobs,
                   job_count, sched_call, job_call>>

\* Scheduler.run when a call of the data store raises: acquire_schedules, the
\* first add_job of a pass, or release_schedules. The exception ends run().
SchedulerStoreRaises ==
    /\ \/ scheduler.pc = "loop" /\ scheduler.state = "started"
       \/ /\ scheduler.pc = "process"
          /\ AddedJobs(scheduler.schedules, now, scheduler.tasks, job_count + 1) # <<>>
       \/ scheduler.pc = "release"
    /\ scheduler' = RunRaised(scheduler, "StoreError", SchedulerStopped("StoreError"))
    /\ published' = <<>>
    /\ lastOp' = [op |-> "raise", exception |-> "StoreError"]
    /\ UNCHANGED <<hub, worker, runs, now, backend, supports_update_returning, t_schedules,
                   t_jobs, job_count, sched_call, job_call>>

\* Scheduler.run: now = datetime.now(), then the "for schedule in schedules"
\* loop with its add_job calls.
SchedulerProcess ==
    /\ scheduler.pc = "process"
    /\ LET batch == scheduler.schedules
           jobs == AddedJobs(batch, now, scheduler.tasks, job_count + 1)
       IN /\ job_count + Len(jobs) <= MaxAddedJobs
          /\ scheduler' = [scheduler EXCEPT
                 !.pc = "release",
                 !.schedules = [i \in DOMAIN batch |->
                                  ProcessSchedule(batch[i], now, scheduler.tasks).schedule]]
          /\ t_jobs' = AddJobs(t_jobs, jobs, now)
          /\ job_count' = job_count + Len(jobs)
          /\ published' = [i \in DOMAIN jobs |-> JobAdded(jobs[i].id)]
          /\ lastOp' = [op |-> "process", jobs |-> jobs]
    /\ UNCHANGED <<hub, worker, runs, now, backend, supports_update_returning, t_schedules,
                   sched_call, job_call>>

\* The store's ScheduleAdded / ScheduleUpdated events set the wake-up latch.
WakesScheduler(events) ==
    \E i \in DOMAIN events : events[i].type \in {"ScheduleAdded", "ScheduleUpdated"}

\* Scheduler.run: release_schedules(identity, schedules), on either store.
SchedulerRelease ==
    /\ scheduler.pc = "release"
    /\ LET batch == scheduler.schedules
           events == IF backend = "mongodb"
                     THEN MongoReleaseEvents(batch, {})
                     ELSE SqlReleaseEvents(t_schedules, SchedulerIdentity, batch, {})
       IN /\ t_schedules' =
                 IF backend = "mongodb"
                 THEN MongoReleaseTable(t_schedules, SchedulerIdentity, batch, {})
                 ELSE SqlReleaseTable(t_schedules, SchedulerIdentity, batch, {})
          /\ published' = events
          /\ lastOp' = ReleaseSchedulesStep(SchedulerIdentity, batch, {})
          /\ scheduler' = [scheduler EXCEPT
                 !.pc = "wait",
                 !.wakeup = @ \/ WakesScheduler(events)]
    /\ UNCHANGED <<hub, worker, runs, now, backend, supports_update_returning, t_jobs,
                   job_count, sched_call, job_call>>

\* Scheduler.run, self._wakeup_event.wait(): returns once the latch is set.
SchedulerWait ==
    /\ scheduler.pc = "wait"
    /\ scheduler.wakeup
    /\ scheduler' = [scheduler EXCEPT !.pc = "rearm"]
    /\ published' = <<>>
    /\ lastOp' = NoOp
    /\ UNCHANGED <<hub, worker, runs, now, backend, supports_update_returning, t_schedules,
                   t_jobs, job_count, sched_call, job_call>>

\* Scheduler.run, self._wakeup_event = threading.Event(): a fresh, clear latch.
SchedulerRearm ==
    /\ scheduler.pc = "rearm"
    /\ scheduler' = [scheduler EXCEPT !.pc = "loop", !.wakeup = FALSE]
    /\ published' = <<>>
    /\ lastOp' = NoOp
    /\ UNCHANGED <<hub, worker, runs, now, backend, supports_update_returning, t_schedules,
                   t_jobs, job_count, sched_call, job_call>>

\* ------------------------------------------------ a Scheduler and its store

\* The schedules the store holds when the Scheduler is entered: added through
\* add_schedule with one coalesce policy and one misfire_grace_time.
StoredSchedules ==
    UNION {{[i \in S |-> ScheduleOf(i, task[i], trigger[i], coalesce, grace)] :
              task \in [S -> TaskIds], trigger \in [S -> Triggers],
              coalesce \in CoalescePolicies, grace \in GraceTimes} :
           S \in SUBSET ScheduleIds \ {{}}}

InitScheduler ==
    /\ now = 0
    /\ backend \in Backends
    /\ supports_update_returning \in
           (IF backend = "sqlalchemy" THEN BOOLEAN ELSE {FALSE})
    /\ \E stored \in StoredSchedules :
         t_schedules = [i \in DOMAIN stored |-> NewScheduleRow(stored[i])]
    /\ t_jobs = <<>>
    /\ job_count = 0
    /\ sched_call = [s \in SchedulerIds |-> [pc |-> "idle"]]
    /\ job_call = [w \in WorkerIds |-> [pc |-> "idle"]]
    /\ published = <<>>
    /\ lastOp = NoOp
    /\ scheduler = NewScheduler
    /\ worker = NoWorker
    /\ runs = <<>>
    /\ hub = NewHub

NextScheduler ==
    \/ SchedulerEnter
    \/ SchedulerExit
    \/ SchedulerRunStart
    \/ SchedulerLoopEnd
    \/ SchedulerAcquire
    \/ SchedulerProcess
    \/ SchedulerRelease
    \/ SchedulerWait
    \/ SchedulerRearm
    \/ Tick

SpecScheduler == InitScheduler /\ [][NextScheduler]_vars

\* ------------------------------------------------ a Scheduler left to run

\* A store holding one schedule when the Scheduler is entered: its task is
\* registered and its trigger produces one or two fire times and then None.
InitSchedulerLive ==
    /\ InitScheduler
    /\ DOMAIN t_schedules = {1}
    /\ LET schedule == deserialize(t_schedules[1].serialized_data)
       IN /\ schedule.task_id = "t1"
          /\ Len(schedule.trigger) <= 1
          /\ \A k \in DOMAIN schedule.trigger : schedule.trigger[k] # Raises

\* The steps of run(), one thread.
SchedulerRunStep ==
    \/ SchedulerRunStart
    \/ SchedulerAcquire
    \/ SchedulerProcess
    \/ SchedulerRelease
    \/ SchedulerWait
    \/ SchedulerRearm

\* The Scheduler while nobody calls __exit__.
NextSchedulerLive ==
    \/ SchedulerEnter
    \/ SchedulerRunStep
    \/ Tick

\* A step of run() can be taken: the condition under which SchedulerRunStep is
\* enabled, read off the guards of its steps.
SchedulerRunEnabled ==
    \/ scheduler.pc = "run" /\ scheduler.state = "starting"
    \/ scheduler.pc = "loop" /\ scheduler.state = "started"
    \/ /\ scheduler.pc = "process"
       /\ job_count + Len(AddedJobs(scheduler.schedules, now, scheduler.tasks,
                                    job_count + 1)) <= MaxAddedJobs
    \/ scheduler.pc = "release"
    \/ scheduler.pc = "wait" /\ scheduler.wakeup
    \/ scheduler.pc = "rearm"

\* The caller of __enter__ eventually takes the step it can take and the clock
\* advances; the thread of run() is weakly fair too, WF_vars(SchedulerRunStep)
\* written out with SchedulerRunEnabled as its enabling condition.
SchedulerFairness ==
    /\ WF_vars(SchedulerEnter)
    /\ WF_vars(Tick)
    /\ ([]<>(~SchedulerRunEnabled) \/ []<><<SchedulerRunStep>>_vars)

SpecSchedulerLive == InitSchedulerLive /\ [][NextSchedulerLive]_vars /\ SchedulerFairness

\* ------------------------------------------------ the life of a component

\* A Worker with its store, or a Scheduler with its store.
InitLifecycle == InitWorker \/ InitSchedulerLive

\* The Worker from __enter__ to the end of run() with a store whose
\* acquire_jobs may raise, or the Scheduler from __enter__ to the end of run()
\* with a store whose calls may raise.
NextLifecycle ==
    \/ worker # NoWorker /\ WorkerEnter
    \/ worker # NoWorker /\ WorkerEnterReturn
    \/ worker # NoWorker /\ WorkerExit
    \/ worker # NoWorker /\ AddJobAndWake(NoTime)
    \/ worker # NoWorker /\ WorkerRunCheck
    \/ worker # NoWorker /\ WorkerRunStart
    \/ worker # NoWorker /\ WorkerLoopEnd
    \/ worker # NoWorker /\ WorkerAcquire
    \/ worker # NoWorker /\ WorkerAcquireRaises
    \/ worker # NoWorker /\ WorkerWait
    \/ worker # NoWorker /\ WorkerRearm
    \/ worker # NoWorker /\ \E i \in DOMAIN runs : RunJobStart(i)
    \/ worker # NoWorker /\ \E i \in DOMAIN runs, raised \in BOOLEAN : RunJobOutcome(i, raised)
    \/ worker # NoWorker /\ \E i \in DOMAIN runs : RunJobFinally(i)
    \/ scheduler # NoScheduler /\ SchedulerEnter
    \/ scheduler # NoScheduler /\ SchedulerExit
    \/ scheduler # NoScheduler /\ SchedulerRunStart
    \/ scheduler # NoScheduler /\ SchedulerLoopEnd
    \/ scheduler # NoScheduler /\ SchedulerAcquire
    \/ scheduler # NoScheduler /\ SchedulerStoreRaises
    \/ scheduler # NoScheduler /\ SchedulerProcess
    \/ scheduler # NoScheduler /\ SchedulerRelease
    \/ scheduler # NoScheduler /\ SchedulerWait
    \/ scheduler # NoScheduler /\ SchedulerRearm
    \/ scheduler # NoScheduler /\ Tick

SpecLifecycle == InitLifecycle /\ [][NextLifecycle]_vars

\* ------------------------------------------------ an EventHub and its users

InitHub ==
    /\ now = 0
    /\ backend = "mongodb"
    /\ supports_update_returning = FALSE
    /\ t_schedules = <<>>
    /\ t_jobs = <<>>
    /\ job_count = 0
    /\ sched_call = [s \in SchedulerIds |-> [pc |-> "idle"]]
    /\ job_call = [w \in WorkerIds |-> [pc |-> "idle"]]
    /\ published = <<>>
    /\ lastOp = NoOp
    /\ scheduler = NoScheduler
    /\ worker = NoWorker
    /\ runs = <<>>
    /\ hub = NewHub

NextHub ==
    \/ HubEnter
    \/ HubExit
    \/ \E callback \in Callbacks, event_types \in TypeArguments :
         HubSubscribe(callback, event_types)
    \/ \E token \in 1..MaxTokens : HubUnsubscribe(token)
    \/ \E event_type \in EventTypes : HubPublish(event_type)
    \/ HubDeliverStart
    \/ \E item \in hub.running, raised \in BOOLEAN : HubDeliverEnd(item, raised)

\* The thread of the executor takes the steps it can take, and a callback
\* returns or raises.
HubFairness ==
    /\ WF_vars(HubDeliverStart)
    /\ WF_vars(\E item \in hub.running, raised \in BOOLEAN : HubDeliverEnd(item, raised))

SpecHub == InitHub /\ [][NextHub]_vars /\ HubFairness

\* ------------------------------------ a store with rows that do not deserialize

\* Stored bytes the serializer cannot turn back into an object.
Garbage == <<"garbage">>

\* Serializer.deserialize returns for the data; otherwise it raises
\* DeserializationError.
Deserializable(data) == data[1] = "pickle"

ScheduleDeserializationFailed(schedule_id) ==
    [type |-> "ScheduleDeserializationFailed", schedule_id |-> schedule_id]

JobDeserializationFailed(job_id) ==
    [type |-> "JobDeserializationFailed", job_id |-> job_id]

\* The rows of the list whose data deserializes, and those whose data does
\* not, in the order of the list.
GoodRows(table, ids) ==
    SelectSeq(ids, LAMBDA k : Deserializable(table[k].serialized_data))

BadRows(table, ids) ==
    SelectSeq(ids, LAMBDA k : ~Deserializable(table[k].serialized_data))

\* The deserialize loop of a MongoDBDataStore.get_*: a row that raises
\* DeserializationError is logged with a warning and skipped; nothing is
\* published.
MongoGet(table, ids) ==
    [raised |-> FALSE, result |-> DeserializeRows(table, GoodRows(table, ids)),
     events |-> <<>>]

\* The deserialize loop of MongoDBDataStore.acquire_*: deserialize is called
\* outside any try, so the first row that does not deserialize ends the call.
MongoDeserialize(table, ids) ==
    IF BadRows(table, ids) = <<>>
    THEN [raised |-> FALSE, result |-> DeserializeRows(table, ids), events |-> <<>>]
    ELSE [raised |-> TRUE, result |-> <<>>, events |-> <<>>]

\* SQLAlchemyDataStore._deserialize_schedules: except SerializationError
\* publishes ScheduleDeserializationFailed for the row and goes on. caught
\* says whether the DeserializationError the serializer raises is a
\* SerializationError; if it is not, the first such row ends the call.
SqlDeserializeSchedules(table, ids, caught) ==
    IF caught \/ BadRows(table, ids) = <<>>
    THEN [raised |-> FALSE, result |-> DeserializeRows(table, GoodRows(table, ids)),
          events |-> [i \in DOMAIN BadRows(table, ids) |->
                        ScheduleDeserializationFailed(BadRows(table, ids)[i])]]
    ELSE [raised |-> TRUE, result |-> <<>>, events |-> <<>>]

\* SQLAlchemyDataStore._deserialize_jobs: the same with
\* JobDeserializationFailed.
SqlDeserializeJobs(table, ids, caught) ==
    IF caught \/ BadRows(table, ids) = <<>>
    THEN [raised |-> FALSE, result |-> DeserializeRows(table, GoodRows(table, ids)),
          events |-> [i \in DOMAIN BadRows(table, ids) |->
                        JobDeserializationFailed(BadRows(table, ids)[i])]]
    ELSE [raised |-> TRUE, result |-> <<>>, events |-> <<>>]

\* What a call of the store did: the rows its query selected, whether it
\* raised, and the list it returned.
StoreCallStep(op, caller, rows, outcome) ==
    [op |-> op, caller |-> caller, rows |-> rows, raised |-> outcome.raised,
     result |-> outcome.result]

\* get_schedules() of either store.
StoreGetSchedules ==
    /\ LET ids == AscendingIds(DOMAIN t_schedules)
       IN \E caught \in BOOLEAN :
            LET outcome == IF backend = "mongodb"
                           THEN MongoGet(t_schedules, ids)
                           ELSE SqlDeserializeSchedules(t_schedules, ids, caught)
            IN /\ published' = outcome.events
               /\ lastOp' = StoreCallStep("get_schedules", NoOwner, ids, outcome)
    /\ UNCHANGED <<components, now, backend, supports_update_returning, t_schedules, t_jobs,
                   job_count, sched_call, job_call>>

\* get_jobs() of either store.
StoreGetJobs ==
    /\ LET ids == AscendingIds(DOMAIN t_jobs)
       IN \E caught \in BOOLEAN :
            LET outcome == IF backend = "mongodb"
                           THEN MongoGet(t_jobs, ids)
                           ELSE SqlDeserializeJobs(t_jobs, ids, caught)
            IN /\ published' = outcome.events
               /\ lastOp' = StoreCallStep("get_jobs", NoOwner, ids, outcome)
    /\ UNCHANGED <<components, now, backend, supports_update_returning, t_schedules, t_jobs,
                   job_count, sched_call, job_call>>

\* acquire_schedules(scheduler_id, limit) of either store, as one call. The
\* MongoDB store stamps after its deserialize loop, the SQL store before it.
StoreAcquireSchedules(limit) ==
    /\ IF backend = "mongodb"
       THEN \E ids \in MongoFindSchedules(limit) :
              LET outcome == MongoDeserialize(t_schedules, ids)
              IN /\ t_schedules' =
                       IF outcome.raised THEN t_schedules
                       ELSE Stamp(t_schedules, Range(ids), SchedulerIdentity,
                                  now + lock_expiration_delay)
                 /\ published' = outcome.events
                 /\ lastOp' = StoreCallStep("acquire_schedules", SchedulerIdentity, ids,
                                            outcome)
       ELSE \E chosen \in SqlSchedulesCte(limit), caught \in BOOLEAN :
              LET updated == Stamp(t_schedules, chosen, SchedulerIdentity,
                                   now + lock_expiration_delay)
              IN \E ids \in Perms(SqlAcquiredRows(updated, chosen, SchedulerIdentity)) :
                   LET outcome == SqlDeserializeSchedules(updated, ids, caught)
                   IN /\ t_schedules' = updated
                      /\ published' = outcome.events
                      /\ lastOp' = StoreCallStep("acquire_schedules", SchedulerIdentity,
                                                 ids, outcome)
    /\ UNCHANGED <<components, now, backend, supports_update_returning, t_jobs, job_count,
                   sched_call, job_call>>

\* acquire_jobs(worker_id, limit) of either store, as one call.
StoreAcquireJobs(limit) ==
    /\ \E keys \in SelectJobs(limit), caught \in BOOLEAN :
         LET stamped == Stamp(t_jobs, Range(keys), WorkerIdentity,
                              now + lock_expiration_delay)
             outcome == IF backend = "mongodb"
                        THEN MongoDeserialize(t_jobs, keys)
                        ELSE SqlDeserializeJobs(stamped, keys, caught)
         IN /\ t_jobs' = IF outcome.raised /\ backend = "mongodb" THEN t_jobs ELSE stamped
            /\ published' = outcome.events
            /\ lastOp' = StoreCallStep("acquire_jobs", WorkerIdentity, keys, outcome)
    /\ UNCHANGED <<components, now, backend, supports_update_returning, t_schedules,
                   job_count, sched_call, job_call>>

\* The stores the calls are made on: each schedule and each job is absent,
\* stored as add_schedule / add_job stored it, or stored with data that no
\* longer deserializes.
InitCorrupt ==
    /\ now = 0
    /\ backend \in Backends
    /\ supports_update_returning \in
           (IF backend = "sqlalchemy" THEN BOOLEAN ELSE {FALSE})
    /\ \E S \in SUBSET ScheduleIds \ {{}}, bad \in SUBSET ScheduleIds :
         t_schedules = [i \in S |->
                          IF i \in bad
                          THEN [NewScheduleRow(Schedule(i, 0)) EXCEPT
                                  !.serialized_data = Garbage]
                          ELSE NewScheduleRow(Schedule(i, 0))]
    /\ \E J \in SUBSET JobIds \ {{}}, bad \in SUBSET JobIds :
         t_jobs = [k \in {job_key(i) : i \in J} |->
                     LET id == CHOOSE i \in J : job_key(i) = k
                     IN IF id \in bad
                        THEN [NewJobRow(Job(id), 0) EXCEPT !.serialized_data = Garbage]
                        ELSE NewJobRow(Job(id), 0)]
    /\ job_count = NumJobs
    /\ sched_call = [s \in SchedulerIds |-> [pc |-> "idle"]]
    /\ job_call = [w \in WorkerIds |-> [pc |-> "idle"]]
    /\ published = <<>>
    /\ lastOp = NoOp
    /\ scheduler = NoScheduler
    /\ worker = NoWorker
    /\ runs = <<>>
    /\ hub = NewHub

NextCorrupt ==
    \/ StoreGetSchedules
    \/ StoreGetJobs
    \/ \E limit \in Limits : StoreAcquireSchedules(limit)
    \/ \E limit \in Limits : StoreAcquireJobs(limit)
    \/ Tick

SpecCorrupt == InitCorrupt /\ [][NextCorrupt]_vars

\* ------------------------------------------------------------------ claims

\* The step is one in which acquire_schedules by s runs its selecting query.
SelectsSchedules(s) ==
    lastOp'.op = "acquire_schedules" /\ lastOp'.caller = s /\ lastOp'.selected

\* The step is one in which acquire_schedules by s returns.
ReturnsSchedules(s) ==
    lastOp'.op = "acquire_schedules" /\ lastOp'.caller = s /\ lastOp'.returned

\* The step is one in which acquire_jobs by w runs its selecting query.
SelectsJobs(w) ==
    lastOp'.op = "acquire_jobs" /\ lastOp'.caller = w /\ lastOp'.selected

\* The step is one in which acquire_jobs by w returns.
ReturnsJobs(w) ==
    lastOp'.op = "acquire_jobs" /\ lastOp'.caller = w /\ lastOp'.returned

\* The row is locked by somebody other than caller.
HeldByOther(row, caller) == row.acquired_by # NoOwner /\ row.acquired_by # caller

\* C1: job mutual exclusion. When acquire_jobs returns a job to worker w and
\* the job's row carries the stamp of another worker's call, that stamp's
\* acquired_until had passed when w's call selected the row.
C1_JobMutualExclusion ==
    [][\A w \in WorkerIds :
         ReturnsJobs(w) /\ job_call[w].pc = "found" =>
           \A i \in DOMAIN lastOp'.result :
             LET k == job_key(lastOp'.result[i].id)
             IN (k \in DOMAIN t_jobs /\ HeldByOther(t_jobs[k], w)) =>
                   t_jobs[k].acquired_until < job_call[w].sel_now]_vars

\* C2: schedule mutual exclusion. acquire_schedules never returns to
\* scheduler s a schedule that another scheduler has stamped with an
\* acquired_until still in the future.
C2_ScheduleMutualExclusion ==
    [][\A s \in SchedulerIds :
         ReturnsSchedules(s) =>
           \A i \in DOMAIN sched_call'[s].schedules :
             LET id == sched_call'[s].schedules[i].id
             IN ~ /\ id \in DOMAIN t_schedules
                  /\ HeldByOther(t_schedules[id], s)
                  /\ t_schedules[id].acquired_until > now]_vars

\* The jobs the acquire_jobs call of w has selected after the step.
SelectedJobKeys(w) ==
    IF job_call'[w].pc = "found"
    THEN {job_key(job_call'[w].jobs[i].id) : i \in DOMAIN job_call'[w].jobs}
    ELSE {}

\* C3: lease recovery. A job row that another worker stamped and did not
\* release is not returned to w while now is before its acquired_until, and
\* from now >= acquired_until on the next acquire_jobs of w selects it (when
\* the limit leaves room for every row whose lease is over).
C3_LeaseRecovery ==
    [][\A w \in WorkerIds :
         /\ ReturnsJobs(w) =>
              \A i \in DOMAIN lastOp'.result :
                LET k == job_key(lastOp'.result[i].id)
                IN (k \in DOMAIN t_jobs /\ HeldByOther(t_jobs[k], w)) =>
                      ~(now < t_jobs[k].acquired_until)
         /\ SelectsJobs(w) =>
              LET over == {k \in DOMAIN t_jobs :
                             \/ t_jobs[k].acquired_until = NoTime
                             \/ t_jobs[k].acquired_until <= now}
              IN \A k \in over :
                   (HeldByOther(t_jobs[k], w) /\ Cardinality(over) <= lastOp'.limit)
                      => k \in SelectedJobKeys(w)]_vars

\* The schedule row is due and unlocked at time at.
Due(row, at) ==
    /\ row.next_fire_time # NoTime
    /\ row.next_fire_time <= at
    /\ (row.acquired_until = NoTime \/ row.acquired_until < at)

\* C4: acquire_schedules returns only due schedules. Every schedule the call
\* goes on to return had, when the call selected, a next_fire_time that is
\* not None and not after now, and no lock or an expired one.
C4_AcquireOnlyDue ==
    [][\A s \in SchedulerIds :
         SelectsSchedules(s) =>
           \A i \in DOMAIN sched_call'[s].schedules :
             LET id == sched_call'[s].schedules[i].id
             IN id \in DOMAIN t_schedules /\ Due(t_schedules[id], now)]_vars

\* C5: FIFO selection of schedules. The list acquire_schedules selects is in
\* non-decreasing next_fire_time order, and no due, unlocked row left out of
\* it has a smaller next_fire_time than a row in it.
C5_FifoSchedules ==
    [][\A s \in SchedulerIds :
         SelectsSchedules(s) =>
           LET list == sched_call'[s].schedules
               ids == {list[i].id : i \in DOMAIN list}
               out == {id \in DOMAIN t_schedules \ ids : Due(t_schedules[id], now)}
           IN /\ \A i, j \in DOMAIN list :
                   i < j => list[i].next_fire_time <= list[j].next_fire_time
              /\ \A id \in out : \A i \in DOMAIN list :
                   list[i].next_fire_time <= t_schedules[id].next_fire_time]_vars

\* C6: SQLAlchemyDataStore.acquire_schedules returns exactly the rows this
\* call stamped: at most limit of them, each stamped by this step with
\* acquired_by = scheduler_id and acquired_until = now + lock_expiration_delay.
C6_SqlAcquireReturnsItsOwnStamps ==
    [][\A s \in SchedulerIds :
         ReturnsSchedules(s) /\ backend = "sqlalchemy" =>
           LET list == sched_call'[s].schedules
           IN /\ Len(list) <= lastOp'.limit
              /\ \A i \in DOMAIN list :
                   LET id == list[i].id
                   IN /\ id \in DOMAIN t_schedules /\ id \in DOMAIN t_schedules'
                      /\ t_schedules'[id] # t_schedules[id]
                      /\ t_schedules'[id].acquired_by = s
                      /\ t_schedules'[id].acquired_until = now + lock_expiration_delay
                ]_vars

\* The number of events of this type published for this schedule by the
\* last step.
Published(type, schedule_id) ==
    Count(published, LAMBDA e : e.type = type /\ e.schedule_id = schedule_id)

\* The schedules of the release_schedules call just made whose rows the
\* caller still owned, by what the call does with them.
ReleasedToUpdate ==
    {sch \in Range(lastOp.schedules) :
        /\ sch.id \in lastOp.owned
        /\ sch.next_fire_time # NoTime
        /\ sch.id \notin lastOp.unserializable}

ReleasedFinished ==
    {sch \in Range(lastOp.schedules) :
        /\ sch.id \in lastOp.owned
        /\ (sch.next_fire_time = NoTime \/ sch.id \in lastOp.unserializable)}

\* C7: after release_schedules, a schedule the caller still owned and handed
\* back with a next_fire_time has that next_fire_time and its new serialized
\* data in its row, no lock fields, and exactly one ScheduleUpdated.
C7_ReleaseUpdatesAndUnlocks ==
    lastOp.op = "release_schedules" =>
      \A sch \in ReleasedToUpdate :
        /\ sch.id \in DOMAIN t_schedules
        /\ t_schedules[sch.id].next_fire_time = sch.next_fire_time
        /\ t_schedules[sch.id].serialized_data = serialize(sch)
        /\ t_schedules[sch.id].acquired_by = NoOwner
        /\ t_schedules[sch.id].acquired_until = NoTime
        /\ Published("ScheduleUpdated", sch.id) = 1

\* C8: after release_schedules, a schedule the caller still owned and handed
\* back without a next_fire_time, or that failed to serialize, has no row,
\* exactly one ScheduleRemoved was published for it, and get_schedules does
\* not return it.
C8_ReleaseRemovesFinished ==
    lastOp.op = "release_schedules" =>
      \A sch \in ReleasedFinished :
        /\ sch.id \notin DOMAIN t_schedules
        /\ Published("ScheduleRemoved", sch.id) = 1
        /\ \A i \in DOMAIN get_schedules : get_schedules[i].id # sch.id

\* C8 witness: a release_schedules call, on either store, that handed back
\* one owned schedule without next_fire_time and one owned schedule that
\* failed to serialize.
C8_Witness ==
    /\ lastOp.op = "release_schedules"
    /\ \E a, b \in ReleasedFinished :
         /\ a.next_fire_time = NoTime
         /\ b.id \in lastOp.unserializable
    /\ Len(published) = 2

\* C9: release_schedules skips stolen rows. A listed schedule whose row is
\* held by another scheduler keeps its row as it was, and neither
\* ScheduleUpdated nor ScheduleRemoved is published for it.
C9_ReleaseSkipsStolen ==
    [][lastOp'.op = "release_schedules" =>
         \A i \in DOMAIN lastOp'.schedules :
           LET id == lastOp'.schedules[i].id
           IN (id \in DOMAIN t_schedules /\ HeldByOther(t_schedules[id], lastOp'.caller))
              => /\ id \in DOMAIN t_schedules'
                 /\ t_schedules'[id] = t_schedules[id]
                 /\ \A j \in DOMAIN published' :
                      published'[j].schedule_id # id]_vars

\* C10: release_jobs(worker_id, jobs) deletes exactly the rows of the listed
\* jobs whose acquired_by is worker_id, and changes no other row.
C10_ReleaseJobsFrame ==
    [][lastOp'.op = "release_jobs" =>
         LET listed == {job_key(job.id) : job \in lastOp'.jobs}
             mine == {k \in listed \cap DOMAIN t_jobs :
                        t_jobs[k].acquired_by = lastOp'.caller}
         IN /\ DOMAIN t_jobs' = DOMAIN t_jobs \ mine
            /\ \A k \in DOMAIN t_jobs' : t_jobs'[k] = t_jobs[k]]_vars

\* C10 witness: a release_jobs call that listed a job it still owned, now
\* deleted, and a job whose lease another worker had taken over, still there.
C10_Witness ==
    /\ lastOp.op = "release_jobs"
    /\ \E job \in lastOp.owned : job_key(job.id) \notin DOMAIN t_jobs
    /\ \E job \in lastOp.jobs :
         /\ job_key(job.id) \in DOMAIN t_jobs
         /\ HeldByOther(t_jobs[job_key(job.id)], lastOp.caller)
    /\ Cardinality(DOMAIN t_jobs) >= 1

\* C11: add_schedule with an id that is already stored and conflict_policy
\* do_nothing returns, and with conflict_policy exception raises
\* ConflictingIdError; either way the table is left as it was and no event is
\* published.
C11_AddScheduleConflictKeeps ==
    [][(/\ lastOp'.op = "add_schedule"
        /\ lastOp'.existed
        /\ lastOp'.conflict_policy \in {"do_nothing", "exception"})
       => /\ t_schedules' = t_schedules
          /\ published' = <<>>
          /\ lastOp'.raised = IF lastOp'.conflict_policy = "exception"
                              THEN "ConflictingIdError" ELSE NoError]_vars

\* C11 witness: an add_schedule with conflict_policy exception of a schedule
\* whose id is stored with another next_fire_time and under a lock.
C11_Witness ==
    /\ lastOp.op = "add_schedule"
    /\ lastOp.existed
    /\ lastOp.conflict_policy = "exception"
    /\ lastOp.raised = "ConflictingIdError"
    /\ t_schedules[lastOp.schedule.id].next_fire_time # lastOp.schedule.next_fire_time
    /\ t_schedules[lastOp.schedule.id].acquired_by # NoOwner

\* C12: add_schedule of an id that is not stored inserts the row and
\* publishes exactly one ScheduleAdded; with conflict_policy replace on a
\* stored id it writes the new data and next_fire_time, publishes exactly one
\* ScheduleUpdated and nothing else, and leaves acquired_by and
\* acquired_until as they were.
C12_AddScheduleInsertsOrReplaces ==
    [][lastOp'.op = "add_schedule" =>
         LET schedule == lastOp'.schedule
             id == schedule.id
         IN /\ ~lastOp'.existed =>
                 /\ id \in DOMAIN t_schedules'
                 /\ t_schedules'[id] = NewScheduleRow(schedule)
                 /\ published' = <<ScheduleAdded(id, schedule.next_fire_time)>>
            /\ (lastOp'.existed /\ lastOp'.conflict_policy = "replace") =>
                 /\ id \in DOMAIN t_schedules'
                 /\ t_schedules'[id].serialized_data = serialize(schedule)
                 /\ t_schedules'[id].next_fire_time = schedule.next_fire_time
                 /\ published' = <<ScheduleUpdated(id, schedule.next_fire_time)>>
                 /\ t_schedules'[id].acquired_by = t_schedules[id].acquired_by
                 /\ t_schedules'[id].acquired_until = t_schedules[id].acquired_until
      ]_vars

\* C13: remove_schedules(ids) returns without error, removes exactly the
\* requested schedules that have no lock or an expired one, and publishes one
\* ScheduleRemoved for each schedule it removed and none for any other id.
C13_RemoveSchedulesUnlockedOnly ==
    [][lastOp'.op = "remove_schedules" =>
         LET removed == DOMAIN t_schedules \ DOMAIN t_schedules'
         IN /\ lastOp'.raised = NoError
            /\ removed = lastOp'.unlocked
            /\ \A id \in DOMAIN t_schedules' : t_schedules'[id] = t_schedules[id]
            /\ \A id \in ScheduleIds :
                 Count(published', LAMBDA e : e.type = "ScheduleRemoved"
                                                /\ e.schedule_id = id)
                   = IF id \in removed THEN 1 ELSE 0]_vars

\* C14: acquire_jobs always returns a list. When a pass of the started
\* Worker's loop acquires no job, the call returned [] and not None, and the
\* Worker is still started and goes to wait on its latch, with no
\* WorkerStopped published.
C14_EmptyAcquireKeepsWorkerRunning ==
    [][(/\ worker.pc = "loop"
        /\ lastOp'.op = "acquire_jobs"
        /\ lastOp'.result = <<>>)
       => /\ ~lastOp'.none
          /\ worker'.state = "started"
          /\ worker'.pc = "wait"
          /\ \A i \in DOMAIN worker'.events :
               worker'.events[i].type # "WorkerStopped"]_vars

\* The events one _run_job of this job may publish, start to end.
Outcomes(job_id) ==
    {<<JobDeadlineMissed(job_id)>>,
     <<JobStarted(job_id), JobCompleted(job_id)>>,
     <<JobStarted(job_id), JobFailed(job_id)>>}

\* C20: every _run_job that reached its finally block has published
\* JobDeadlineMissed alone, or JobStarted followed by exactly one of
\* JobCompleted and JobFailed; one that is inside the job function has
\* published JobStarted alone, and one not yet started nothing.
C20_RunJobOutcomeEvents ==
    \A i \in DOMAIN runs :
      /\ runs[i].pc = "queued" => runs[i].events = <<>>
      /\ runs[i].pc = "called" => runs[i].events = <<JobStarted(runs[i].job.id)>>
      /\ runs[i].pc \in {"finally", "done", "KeyError"} =>
           runs[i].events \in Outcomes(runs[i].job.id)

\* C20 witness: one _run_job ended after its function raised and another
\* after it missed its deadline.
C20_Witness ==
    \E i, j \in DOMAIN runs :
      /\ runs[i].pc = "done"
      /\ runs[i].events = <<JobStarted(runs[i].job.id), JobFailed(runs[i].job.id)>>
      /\ runs[j].pc = "done"
      /\ runs[j].events = <<JobDeadlineMissed(runs[j].job.id)>>

\* ---- claims about Scheduler.run

\* The pass of Scheduler.run over an acquired batch.
IsProcess == scheduler.pc = "process" /\ scheduler'.pc = "release"

\* The schedule's task is registered with the Scheduler.
TaskKnown(schedule) == schedule.task_id \in scheduler.tasks

RECURSIVE DueOf(_, _)
\* The fire times up to `at` the trigger yields before it yields a later one,
\* is exhausted or raises.
DueOf(trigger, at) ==
    IF trigger = <<>> THEN <<>>
    ELSE IF Head(trigger) = Raises \/ Head(trigger) > at THEN <<>>
    ELSE <<Head(trigger)>> \o DueOf(Tail(trigger), at)

\* The past-due fire times of an acquired schedule, its next_fire_time first.
PastDue(schedule, at) == <<schedule.next_fire_time>> \o DueOf(schedule.trigger, at)

RECURSIVE RaisesBy(_, _)
\* trigger.next() raises before it yields a fire time after `at` or None.
RaisesBy(trigger, at) ==
    IF trigger = <<>> THEN FALSE
    ELSE IF Head(trigger) = Raises THEN TRUE
    ELSE IF Head(trigger) > at THEN FALSE
    ELSE RaisesBy(Tail(trigger), at)

RECURSIVE FirstAfter(_, _)
\* The first fire time after `at` of a trigger that does not raise, None if
\* there is none.
FirstAfter(trigger, at) ==
    IF trigger = <<>> THEN NoTime
    ELSE IF Head(trigger) > at THEN Head(trigger)
    ELSE FirstAfter(Tail(trigger), at)

\* The scheduled fire times of the jobs of a list that belong to a schedule.
FireTimesFor(jobs, schedule_id) ==
    LET mine == SelectSeq(jobs, LAMBDA j : j.schedule_id = schedule_id)
    IN [i \in DOMAIN mine |-> mine[i].scheduled_fire_time]

\* C15: for an acquired schedule with a known task whose next_fire_time is
\* due, with K past-due fire times counting that next_fire_time, one pass adds
\* exactly one job for the first of them under coalesce = earliest, exactly
\* one job for the last of them under latest, and exactly K jobs, one per fire
\* time in ascending order, under all.
C15_CoalescePolicies ==
    [][IsProcess =>
         \A i \in DOMAIN scheduler.schedules :
           LET s == scheduler.schedules[i]
               due == PastDue(s, now)
               fired == FireTimesFor(lastOp'.jobs, s.id)
           IN (TaskKnown(s) /\ s.next_fire_time # NoTime /\ s.next_fire_time <= now) =>
                /\ s.coalesce = "earliest" => fired = <<due[1]>>
                /\ s.coalesce = "latest" => fired = <<due[Len(due)]>>
                /\ s.coalesce = "all" => fired = due]_vars

\* A pass has just added several jobs, one per past-due fire time, for a
\* schedule with coalesce = all.
C15_Witness ==
    /\ lastOp.op = "process"
    /\ \E i \in DOMAIN scheduler.schedules :
         LET s == scheduler.schedules[i]
             fired == FireTimesFor(lastOp.jobs, s.id)
         IN /\ s.coalesce = "all"
            /\ Len(fired) >= 2
            /\ \A k \in DOMAIN fired : fired[k] <= now
            /\ \A k \in 2..Len(fired) : fired[k - 1] < fired[k]

\* C16: after a pass over an acquired schedule with a known task whose
\* trigger does not raise, the next_fire_time handed to release_schedules is
\* the first value of trigger.next() after the pass's now, or None when the
\* trigger has none; it is never at or before now.
C16_NextFireTimeInFuture ==
    [][IsProcess =>
         \A i \in DOMAIN scheduler.schedules :
           LET s == scheduler.schedules[i]
               after == scheduler'.schedules[i]
           IN (TaskKnown(s) /\ ~RaisesBy(s.trigger, now)) =>
                /\ after.next_fire_time = FirstAfter(s.trigger, now)
                /\ after.next_fire_time = NoTime \/ after.next_fire_time > now]_vars

\* A pass has just fired a schedule and left it a next_fire_time in the future.
C16_Witness ==
    /\ lastOp.op = "process"
    /\ \E i \in DOMAIN scheduler.schedules :
         LET s == scheduler.schedules[i]
         IN /\ s.next_fire_time # NoTime
            /\ s.next_fire_time > now
            /\ s.last_fire_time # NoTime
            /\ s.last_fire_time <= now
            /\ Len(FireTimesFor(lastOp.jobs, s.id)) >= 1

\* C17: when trigger.next() raises during the pass over an acquired schedule
\* with a known task, the schedule's next_fire_time is None afterwards, and
\* the release that follows leaves no row of it in the store.
C17_TriggerErrorEndsSchedule ==
    [][/\ IsProcess =>
            \A i \in DOMAIN scheduler.schedules :
              (TaskKnown(scheduler.schedules[i])
                 /\ RaisesBy(scheduler.schedules[i].trigger, now)) =>
                scheduler'.schedules[i].next_fire_time = NoTime
       /\ (scheduler.pc = "release" /\ scheduler'.pc = "wait") =>
            \A i \in DOMAIN scheduler.schedules :
              (TaskKnown(scheduler.schedules[i])
                 /\ TriggerNext(scheduler.schedules[i].trigger).raised) =>
                scheduler.schedules[i].id \notin DOMAIN t_schedules']_vars

\* C18: a schedule whose task is not registered gets no job and a None
\* next_fire_time; the schedules after it in the batch are still fired, the
\* Scheduler stays started and goes on to release, and the release leaves no
\* row of the schedule in the store.
C18_LookupFailureSkipsSchedule ==
    [][/\ IsProcess =>
            /\ scheduler'.state = scheduler.state
            /\ \A i \in DOMAIN scheduler.schedules :
                 LET s == scheduler.schedules[i]
                 IN IF TaskKnown(s)
                    THEN Len(FireTimesFor(lastOp'.jobs, s.id)) >= 1
                    ELSE /\ FireTimesFor(lastOp'.jobs, s.id) = <<>>
                         /\ scheduler'.schedules[i].next_fire_time = NoTime
       /\ (scheduler.pc = "release" /\ scheduler'.pc = "wait") =>
            \A i \in DOMAIN scheduler.schedules :
              ~TaskKnown(scheduler.schedules[i]) =>
                scheduler.schedules[i].id \notin DOMAIN t_schedules']_vars

\* A pass has just skipped a schedule with an unknown task and fired the
\* schedule after it in the same batch.
C18_Witness ==
    /\ lastOp.op = "process"
    /\ scheduler.state = "started"
    /\ \E i, j \in DOMAIN scheduler.schedules :
         /\ i < j
         /\ ~TaskKnown(scheduler.schedules[i])
         /\ scheduler.schedules[i].next_fire_time = NoTime
         /\ FireTimesFor(lastOp.jobs, scheduler.schedules[i].id) = <<>>
         /\ TaskKnown(scheduler.schedules[j])
         /\ Len(FireTimesFor(lastOp.jobs, scheduler.schedules[j].id)) >= 1

IsRunJobStart(i) == runs[i].pc = "queued" /\ runs'[i].pc # "queued"

\* The step is the finally block of the i-th _run_job.
IsRunJobFinally(i) == runs[i].pc = "finally" /\ runs'[i].pc # "finally"

\* After the step the job is neither in the running set nor in the store, and
\* the finally block of its _run_job ran to its end, release_jobs included.
RemovedAndReleased(i) ==
    /\ runs'[i].pc = "done"
    /\ lastOp'.op = "release_jobs"
    /\ runs[i].job.id \notin worker'.running
    /\ job_key(runs[i].job.id) \notin DOMAIN t_jobs'

\* C21: a _run_job that starts after the job's start_deadline publishes
\* JobDeadlineMissed and no JobStarted and does not call the function, and
\* its finally block still removes the job from the running set and releases
\* it, which deletes the row; with no start_deadline, or one not before the
\* start time, JobStarted is published and the function is called.
C21_DeadlineEnforced ==
    [][\A i \in DOMAIN runs :
         /\ IsRunJobStart(i) =>
              IF runs[i].job.start_deadline # NoTime /\ now > runs[i].job.start_deadline
              THEN /\ runs'[i].events = <<JobDeadlineMissed(runs[i].job.id)>>
                   /\ runs'[i].pc = "finally"
              ELSE /\ runs'[i].events = <<JobStarted(runs[i].job.id)>>
                   /\ runs'[i].pc = "called"
         /\ (IsRunJobFinally(i) /\ runs[i].events = <<JobDeadlineMissed(runs[i].job.id)>>) =>
              RemovedAndReleased(i)]_vars

\* C22: when the job function raises, JobFailed is published and the Worker
\* is left as it was, in the started state with its loop where it stood; the
\* finally block of that _run_job removes the job from the running set and
\* calls release_jobs, which deletes the row.
C22_FailedJobKeepsWorker ==
    [][\A i \in DOMAIN runs :
         /\ (runs[i].pc = "called" /\ runs'[i].pc = "finally"
               /\ runs'[i].events[Len(runs'[i].events)].type = "JobFailed") =>
              worker' = worker
         /\ (/\ IsRunJobFinally(i)
             /\ runs[i].events = <<JobStarted(runs[i].job.id), JobFailed(runs[i].job.id)>>) =>
              /\ worker'.state = worker.state
              /\ worker'.pc = worker.pc
              /\ RemovedAndReleased(i)]_vars

\* The _run_job calls whose job function is executing.
Executing == {i \in DOMAIN runs : runs[i].pc = "called"}

\* The _run_job calls submitted and not yet over.
InProgress == {i \in DOMAIN runs : runs[i].pc \in {"queued", "called", "finally"}}

\* C23: at most max_concurrent_jobs job functions execute at the same time,
\* and every acquire_jobs call of the Worker asks for at most
\* max_concurrent_jobs minus the number of jobs it is running.
C23_ConcurrencyCap ==
    [][/\ Cardinality(Executing') <= max_concurrent_jobs
       /\ (worker.pc = "loop" /\ lastOp'.op = "acquire_jobs") =>
            lastOp'.limit <= max_concurrent_jobs - Cardinality(InProgress)]_vars

\* A terminal outcome of the job has been published by one of its _run_job calls.
HasOutcome(id) ==
    \E i \in DOMAIN runs :
      /\ runs[i].job.id = id
      /\ runs[i].events # <<>>
      /\ runs[i].events[Len(runs[i].events)].type
           \in {"JobCompleted", "JobFailed", "JobDeadlineMissed"}

\* C24: with a Worker that stays started, every job in the store is
\* eventually run to a terminal outcome and its row deleted, also when more
\* jobs are pending than max_concurrent_jobs and no further job is added.
C24_JobLiveness ==
    <>[](worker.state = "started") =>
        \A id \in 1..MaxRuns :
          [](job_key(id) \in DOMAIN t_jobs =>
               <>(job_key(id) \notin DOMAIN t_jobs /\ HasOutcome(id)))

\* C27: once __exit__ has set the state to stopping and set the latch while
\* run() has not ended, the loop makes no acquire_jobs call after the cycle
\* it is in, and run() eventually leaves the Worker stopped.
C27_ShutdownTerminates ==
    /\ [][(worker.exited /\ worker.pc \in {"wait", "rearm", "done"}) =>
            lastOp'.op # "acquire_jobs"]_vars
    /\ (worker.exited /\ worker.pc # "done") ~> worker.state = "stopped"

\* C28: __enter__ returns only after WorkerStarted has been published, and
\* raises if run() has ended with an exception; no other event lets it return.
C28_EnterWaitsForStarted ==
    /\ worker.entered = "yes" =>
         \E i \in DOMAIN worker.events : worker.events[i] = WorkerStarted
    /\ worker.entered = "raised" => worker.pc = "done" /\ worker.error # NoError

\* C35: the running set of the Worker is the set of the ids of the jobs whose
\* _run_job is in progress; the loop never submits a job whose id is in the
\* running set, also when the lease of that job has expired while its
\* function runs; and the finally block of every _run_job removes the id
\* from the set without an error and then calls release_jobs.
C35_RunningSetIsInProgress ==
    /\ [](worker.running = {runs[i].job.id : i \in InProgress})
    /\ [][/\ (worker.pc = "loop" /\ lastOp'.op = "acquire_jobs") =>
               \A i \in DOMAIN runs' :
                 i \notin DOMAIN runs => runs'[i].job.id \notin worker.running
          /\ \A i \in DOMAIN runs :
               IsRunJobFinally(i) =>
                 /\ runs[i].job.id \in worker.running
                 /\ runs[i].job.id \notin worker'.running
                 /\ runs'[i].pc = "done"
                 /\ lastOp'.op = "release_jobs"
                 /\ lastOp'.jobs = {runs[i].job}]_vars

\* ---- claims about a Scheduler left to run

\* The rows of the job store that hold a job of the schedule for the fire time.
JobRowsFor(schedule_id, fire_time) ==
    {k \in DOMAIN t_jobs :
       /\ deserialize(t_jobs[k].serialized_data).schedule_id = schedule_id
       /\ deserialize(t_jobs[k].serialized_data).scheduled_fire_time = fire_time}

\* The store holds the schedule with a known task and this next_fire_time,
\* which is still to come and is the last one of its trigger.
AwaitsFireTime(id, fire_time) ==
    /\ id \in DOMAIN t_schedules
    /\ t_schedules[id].next_fire_time = fire_time
    /\ fire_time > now
    /\ TaskKnown(deserialize(t_schedules[id].serialized_data))
    /\ deserialize(t_schedules[id].serialized_data).trigger = <<>>

\* C25: with a Scheduler that is entered and never exited, a stored schedule
\* whose next_fire_time is still to come eventually has exactly one job for
\* that fire time, added once now has reached it; and as its trigger has no
\* later fire time the schedule is eventually removed from the store.
C25_ScheduleLiveness ==
    \A fire_time \in Times :
      /\ AwaitsFireTime(1, fire_time)
            ~> (Cardinality(JobRowsFor(1, fire_time)) = 1 /\ now >= fire_time)
      /\ AwaitsFireTime(1, fire_time) ~> (1 \notin DOMAIN t_schedules)

\* No lease of the store has run out so far: each one lasts
\* lock_expiration_delay from the time of its stamp, and the clock starts at 0.
NoLeaseExpired == now < lock_expiration_delay

\* C36: no fire time is fired twice. With one Scheduler, and as long as no
\* lease has run out, the store never holds more than one job for a schedule
\* and a scheduled_fire_time, over any number of passes of the loop, and
\* every job a pass adds has a scheduled_fire_time that is not later than the
\* now of that pass.
C36_NoDuplicateFiring ==
    /\ [](NoLeaseExpired =>
            \A id \in ScheduleIds, fire_time \in Times :
              Cardinality(JobRowsFor(id, fire_time)) <= 1)
    /\ [][(NoLeaseExpired /\ lastOp'.op = "process") =>
            \A i \in DOMAIN lastOp'.jobs :
              /\ lastOp'.jobs[i].scheduled_fire_time # NoTime
              /\ lastOp'.jobs[i].scheduled_fire_time <= now]_vars

\* ---- claims about the life of a component

\* The Worker or the Scheduler, whichever the run is about.
Component == IF worker # NoWorker THEN worker ELSE scheduler

\* The positions of run() inside its while loop.
LoopPositions == {"loop", "process", "release", "wait", "rearm"}

StartedEvents == {"WorkerStarted", "SchedulerStarted"}

StoppedEvents == {"WorkerStopped", "SchedulerStopped"}

\* How many events of the types the component has published.
CountOf(events, types) ==
    Cardinality({i \in DOMAIN events : events[i].type \in types})

\* The step publishes one Stopped event carrying the exception, the only
\* Stopped event of the component, and leaves the component stopped.
AnnouncesStopped(before, after, exception) ==
    /\ after.state = "stopped"
    /\ Len(after.events) = Len(before.events) + 1
    /\ SubSeq(after.events, 1, Len(before.events)) = before.events
    /\ after.events[Len(after.events)].type \in StoppedEvents
    /\ after.events[Len(after.events)].exception = exception
    /\ CountOf(after.events, StoppedEvents) = 1

\* C26: a data-store call that raises inside the loop of run() ends the loop,
\* leaves the component stopped and publishes exactly one Stopped event that
\* carries the exception; a loop that ends because of shutdown publishes
\* exactly one Stopped event without an exception; and Started is published
\* exactly once, before the first acquire call.
C26_LifecycleEvents ==
    /\ [][/\ lastOp'.op = "raise" =>
               /\ Component.pc \in LoopPositions
               /\ Component'.pc = "done"
               /\ Component'.error = lastOp'.exception
          /\ (Component.pc \in LoopPositions /\ Component'.pc = "done") =>
               /\ Component'.error = NoError => Component.state # "started"
               /\ AnnouncesStopped(Component, Component', Component'.error)
          /\ lastOp'.op \in {"acquire_jobs", "acquire_schedules"} =>
               CountOf(Component.events, StartedEvents) = 1]_vars
    /\ [](/\ CountOf(Component.events, StartedEvents) <= 1
          /\ CountOf(Component.events, StoppedEvents) <= 1
          /\ Component.pc \in LoopPositions =>
               CountOf(Component.events, StartedEvents) = 1)

\* A Worker whose acquire_jobs raised: run() has ended and has published
\* WorkerStarted and then the one WorkerStopped carrying the exception.
C26_Witness ==
    /\ worker # NoWorker
    /\ worker.pc = "done"
    /\ worker.state = "stopped"
    /\ worker.error = "StoreError"
    /\ worker.events = <<WorkerStarted, WorkerStopped("StoreError")>>

\* The events of the step are ones the wake-up handler of the component is
\* subscribed to: JobAdded for the Worker, ScheduleAdded and ScheduleUpdated
\* for the Scheduler.
WakesComponent(events) ==
    IF worker # NoWorker
    THEN \E i \in DOMAIN events : events[i].type = "JobAdded"
    ELSE WakesScheduler(events)

\* A job was added, and the latch set by the handler, after the acquire_jobs
\* call of the cycle: run() is in wait(), or between the return of wait() and
\* the statement that replaces the latch.
WokenAfterAcquire ==
    /\ lastOp.op = "add_job"
    /\ worker.pc \in {"wait", "rearm"}
    /\ worker.state = "started"

\* C34: no wake-up is lost. An event that wakes the component while run() is
\* in its loop leaves the latch set; a set latch is given up only by the
\* statement that replaces it, which leads straight to the next pass of the
\* loop, also when the event came between the return of wait() and that
\* statement; wait() returns only on a set latch; and after a wake-up that
\* came later than the acquire of its cycle, a Worker that is not shut down
\* calls acquire_jobs again.
C34_NoLostWakeup ==
    /\ [][/\ (WakesComponent(published') /\ Component.pc \in LoopPositions) =>
               Component'.wakeup
          /\ (Component.pc \in LoopPositions /\ Component.wakeup /\ ~Component'.wakeup) =>
               Component.pc = "rearm" /\ Component'.pc = "loop"
          /\ (Component.pc = "wait" /\ Component'.pc # "wait") => Component.wakeup
          /\ (Component.pc = "rearm" /\ Component' # Component /\ Component'.pc # "rearm") =>
               Component'.pc = "loop"]_vars
    /\ WokenAfterAcquire
          ~> (lastOp.op = "acquire_jobs" \/ worker.pc = "done" \/ worker.exited)

\* ---- claims about an EventHub

\* C29: the callback of a subscriber is invoked for the events that match its
\* subscription in the order in which they were published, an event published
\* later still waiting in the queue of the executor while an earlier one is
\* delivered; and the one thread of the executor invokes one callback at a
\* time.
C29_EventOrdering ==
    /\ Cardinality(hub.running) <= 1
    /\ \A i, j \in DOMAIN hub.invoked :
         (i < j /\ hub.invoked[i].callback = hub.invoked[j].callback) =>
           hub.invoked[i].event.id <= hub.invoked[j].event.id
    /\ \A i \in DOMAIN hub.invoked, j \in DOMAIN hub.queue :
         hub.invoked[i].callback = hub.queue[j].callback =>
           hub.invoked[i].event.id <= hub.queue[j].event.id

\* One subscriber has had its callback invoked for the first event and then
\* for the second.
C29_Witness ==
    \E i, j \in DOMAIN hub.invoked :
      /\ i < j
      /\ hub.invoked[i].token = hub.invoked[j].token
      /\ hub.invoked[i].event.id = 1
      /\ hub.invoked[j].event.id = 2

\* The work item of the subscription for the event is in the queue of the
\* executor.
Queued(token, id) ==
    \E i \in DOMAIN hub.queue :
      hub.queue[i].token = token /\ hub.queue[i].event.id = id

\* The callback of the subscription has been invoked for the event.
Invoked(token, id) ==
    \E i \in DOMAIN hub.invoked :
      hub.invoked[i].token = token /\ hub.invoked[i].event.id = id

\* C30: a callback that raises is logged and changes nothing else in the hub:
\* the work items behind it stay queued and the subscriptions stay; a publish
\* on an open hub submits a work item for every matching subscription even
\* after a callback has raised; and every work item submitted is eventually
\* run, so the other subscribers still get the event and all of them get the
\* later ones.
C30_RaisingCallbackIsolated ==
    /\ [][/\ (lastOp'.op = "deliver_event" /\ lastOp'.raised) =>
               /\ hub'.alive
               /\ hub'.queue = hub.queue
               /\ hub'.subscriptions = hub.subscriptions
               /\ hub'.state = hub.state
               /\ hub'.logged = Append(hub.logged, lastOp'.item)
          /\ (lastOp'.op = "publish" /\ hub.state = "open" /\ hub.logged # <<>>) =>
               \A k \in DOMAIN hub.subscriptions :
                 Matches(hub.subscriptions[k], lastOp'.event.type) =>
                   \E q \in DOMAIN hub'.queue :
                     /\ hub'.queue[q].token = hub.subscriptions[k].token
                     /\ hub'.queue[q].event = lastOp'.event]_vars
    /\ \A token \in 1..MaxTokens, id \in 1..MaxEvents :
         Queued(token, id) ~> Invoked(token, id)

\* The callback of one subscriber raised for the first event; after that the
\* other subscriber was invoked for the same event and the one that raised was
\* invoked for the second event.
C30_Witness ==
    \E i, j, k \in DOMAIN hub.invoked :
      /\ i < j /\ j < k
      /\ hub.invoked[i] \in Range(hub.logged)
      /\ hub.invoked[i].event.id = 1
      /\ hub.invoked[j].event.id = 1
      /\ hub.invoked[j].token # hub.invoked[i].token
      /\ hub.invoked[k].event.id = 2
      /\ hub.invoked[k].token = hub.invoked[i].token
      /\ hub.running = {}

\* The tokens of the subscriptions the hub holds.
Subscribed == {hub.subscriptions[k].token : k \in DOMAIN hub.subscriptions}

\* C31: subscribe and unsubscribe take effect on the next event. A work item
\* enters the queue of the executor only in the publish of its event and only
\* for a subscription the hub holds at that publish, and a callback is invoked
\* only for the work item at the head of the queue: so a token that was
\* unsubscribed gets no event published afterwards and a subscription made
\* after a publish never gets that event. unsubscribe removes the token, and
\* with a token the hub does not hold it changes nothing.
C31_SubscriptionsTakeEffectOnNextEvent ==
    [][/\ \A q \in DOMAIN hub'.queue :
            hub'.queue[q] \notin Range(hub.queue) =>
              /\ lastOp'.op = "publish"
              /\ hub'.queue[q].event = lastOp'.event
              /\ hub'.queue[q].event.id = hub.events + 1
              /\ hub'.queue[q].token \in Subscribed
       /\ hub'.invoked # hub.invoked =>
            /\ hub.queue # <<>>
            /\ hub'.invoked = Append(hub.invoked, Head(hub.queue))
       /\ lastOp'.op = "unsubscribe" =>
            /\ lastOp'.token \notin Subscribed'
            /\ lastOp'.token \notin Subscribed => hub' = hub
            /\ hub'.queue = hub.queue
       /\ lastOp'.op = "subscribe" =>
            /\ hub'.queue = hub.queue
            /\ lastOp'.token \notin Subscribed
            /\ Subscribed' = Subscribed \cup {lastOp'.token}]_vars

\* The first subscription got the first event and was unsubscribed; the
\* second event, published afterwards, was delivered to the second
\* subscription only.
C31_Witness ==
    /\ Subscribed = {2}
    /\ Invoked(1, 1)
    /\ Invoked(2, 2)
    /\ ~Invoked(1, 2) /\ ~Queued(1, 2)
    /\ hub.queue = <<>>

\* The subscription was created to receive events of the type: with no
\* filter, or with a collection that holds the type.
Admits(event_types, event_type) ==
    event_types = <<>> \/ event_type \in event_types[1]

\* C32: a publish on an open hub submits a work item for a subscription if
\* and only if the subscription was created with no filter or with a
\* collection holding the type of the event, so that one created with an
\* empty collection gets no event; and the callback of a subscription the hub
\* holds has been invoked for no event the subscription was not created for.
C32_TypeFilteredDelivery ==
    /\ [][(lastOp'.op = "publish" /\ hub.state = "open") =>
            \A k \in DOMAIN hub.subscriptions :
              Admits(hub.subscriptions[k].argument, lastOp'.event.type)
                <=> \E q \in DOMAIN lastOp'.items :
                      lastOp'.items[q].token = hub.subscriptions[k].token]_vars
    /\ [](\A i \in DOMAIN hub.invoked, k \in DOMAIN hub.subscriptions :
            hub.invoked[i].token = hub.subscriptions[k].token =>
              Admits(hub.subscriptions[k].argument, hub.invoked[i].event.type))

\* ---- claims about a store with rows that do not deserialize

\* The table a call of the store reads, after the call.
TableOf(op) ==
    IF op \in {"get_schedules", "acquire_schedules"} THEN t_schedules' ELSE t_jobs'

\* The event that tells that the row of the table did not deserialize.
FailedEvent(op, key) ==
    IF op \in {"get_schedules", "acquire_schedules"}
    THEN ScheduleDeserializationFailed(key)
    ELSE JobDeserializationFailed(key)

\* C33: acquire_schedules, acquire_jobs, get_schedules and get_jobs never
\* raise because of a row that does not deserialize: the call returns the
\* objects of the other rows it selected, a DeserializationFailed event is
\* published for each row that failed, and an acquire leaves no such row
\* stamped as acquired by the caller.
C33_DeserializationFailuresSkipped ==
    [][lastOp'.op \in {"get_schedules", "get_jobs", "acquire_schedules", "acquire_jobs"} =>
         LET table == TableOf(lastOp'.op)
             bad == BadRows(table, lastOp'.rows)
         IN /\ ~lastOp'.raised
            /\ lastOp'.result = DeserializeRows(table, GoodRows(table, lastOp'.rows))
            /\ \A b \in DOMAIN bad :
                 /\ FailedEvent(lastOp'.op, bad[b]) \in Range(published')
                 /\ lastOp'.op \in {"acquire_schedules", "acquire_jobs"} =>
                      table[bad[b]].acquired_by # lastOp'.caller]_vars

====
